---- MODULE Spec2Model ----
(***************************************************************************)
(* spend-what-server: the access-control and consistency core.             *)
(*                                                                         *)
(* The document store is the record db, one field per collection (named as *)
(* the Settings.name of src/db/models.py).  Every request handler is a     *)
(* pure operator from the store before the request to the store after it   *)
(* and the response; an exception raised inside `async with                *)
(* mongo_transaction()` aborts the transaction, so a failing handler       *)
(* returns the store it was given.                                         *)
(***************************************************************************)
EXTENDS Integers, Sequences, FiniteSets, Bags, TLC

\* ------------------------------------------------------------------ bounds
MaxBills == 1        \* Spec: bills ever created
MaxMembers == 1      \* Spec: BillMember rows ever created
MaxTokens == 1       \* Spec: share tokens ever issued
MaxAccessList == 1   \* length of an update_access access_list
AccessBills == 1     \* SpecAccess: bills ever created
BatchBills == 2      \* SpecBatch: bills ever created
ShareBills == 1      \* SpecShare: bills ever created
ShareMembers == 1    \* SpecShare: BillMember rows ever created
ShareTokens == 1     \* SpecShare: share tokens ever issued
TokenBills == 1      \* SpecToken: bills ever created
TokenTokens == 1     \* SpecToken: share tokens ever issued
MaxTime == 1          \* SpecShare: the clock runs over 0..MaxTime
ItemBills == 1
ItemMembers == 1
TxnBills == 1
TxnMembers == 2
TxnTokens == 1
CascadeBills == 2
RosterBills == 1
RosterMembers == 3
RetryBills == 1
RetryRequests == 1
AnonBills == 1
AnonMembers == 1
AnonTokens == 1
RemoveBills == 2
RemoveMembers == 3
LedgerBills == 2
LedgerMembers == 2
LedgerItems == 2

\* ------------------------------------------------------------ value spaces
None == "None"                          \* Python None
Users == {"alice", "carol"}             \* registered users
Callers == Users \cup {None}            \* UserSessionParsed: a User or None

OWNER == "owner"
MEMBER == "member"
OBSERVER == "observer"
BillAccessRole == {OWNER, MEMBER, OBSERVER}

\* responses: the HTTPException status classes, and an unhandled exception
Ok == "Ok"
Unauthorized == "Unauthorized"          \* 401
Forbidden == "Forbidden"                \* 403
NotFound == "NotFound"                  \* 404
BadRequest == "BadRequest"              \* 400
InternalError == "InternalError"        \* uncaught Python exception (500)

VARIABLES
    db,             \* the document store: collections and id generators
    now,            \* the clock (datetime.now())
    last,           \* the request last handled and its response
    shareRequests,  \* history: the ShareBillParams each token was issued with
    txns            \* the open transaction of each request in flight

vars == <<db, now, last, shareRequests, txns>>

Idle == [op |-> "idle"]

\* the requests served at the same time, and a request slot without transaction
Procs == {"p", "q"}
NoTxn == [phase |-> "none"]

\* ---------------------------------------------------------------- helpers
Range(s) == {s[i] : i \in DOMAIN s}

\* the rows of bag B that are in S, with their multiplicities
BagKeep(B, S) == [e \in DOMAIN B \cap S |-> B[e]]

\* list comprehension [m for m in s if m != x]
RECURSIVE Without(_, _)
Without(s, x) ==
    IF s = <<>> THEN <<>>
    ELSE IF Head(s) = x THEN Without(Tail(s), x)
    ELSE <<Head(s)>> \o Without(Tail(s), x)

\* a function with key k removed / added
Drop(f, ks) == [k \in DOMAIN f \ ks |-> f[k]]
Put(f, k, v) == [x \in DOMAIN f \cup {k} |-> IF x = k THEN v ELSE f[x]]

\* a pydantic model keeps the declared fields of its keyword arguments and
\* ignores the others
Document(fields, kwargs) == [f \in DOMAIN kwargs \cap fields |-> kwargs[f]]
HasAttr(doc, f) == f \in DOMAIN doc

\* results of a handler: the store after it, and the response
Fail(d, code) == [db |-> d, res |-> code, val |-> None]
Done(d, v) == [db |-> d, res |-> Ok, val |-> v]

\* ----------------------------------------------------------------- schema
\* (created_time of Bill and of BillShareToken is written once and read by no
\* handler: it is left out)
BillFields == {"title", "members", "created_by", "item_updated_time"}
BillMemberFields == {"name", "linked_user"}
BillAccessFields == {"bill", "user", "role"}
BillShareTokenFields == {"token", "bill", "access_role", "created_by"}
BillItemFields == {"bill", "type", "type_icon", "description", "amount", "currency",
                   "created_by", "paid_by", "created_time", "occurred_time"}

AccessRow(b, u, r) == [bill |-> b, user |-> u, role |-> r]

\* BillAccess rows of bill b in store d (a bag: the collection has no unique index)
AccessOf(d, b) ==
    BagKeep(d.bill_access, {row \in DOMAIN d.bill_access : row.bill = b})

\* ------------------------------------------------- src/service/bill/bill.py
\* check_bill_permission: the bill must exist (404), and the user must hold
\* a BillAccess row on it with a role among allowed_roles (403)
check_bill_permission(d, bill_id, user, allowed_roles) ==
    IF bill_id \notin DOMAIN d.bill THEN NotFound
    ELSE IF ~\E row \in DOMAIN d.bill_access :
                /\ row.bill = bill_id
                /\ row.user = user
                /\ row.role \in allowed_roles
         THEN Forbidden
    ELSE Ok

\* BillPublic.from_orm_bill reads bill.occurred_at and bill.currency
BillPublic_from_orm_bill(bill) ==
    IF HasAttr(bill, "occurred_at") /\ HasAttr(bill, "currency") THEN Ok
    ELSE InternalError

\* create_bill with the Access row left at the default role of BillAccess
create_bill_default_role(d, t, user, title) ==
    IF user = None THEN Fail(d, Unauthorized)
    ELSE
        LET id == d.next_id.bill + 1
            bill == Document(BillFields,
                        [title |-> title, members |-> <<>>, created_by |-> user,
                         item_updated_time |-> t])
            d1 == [d EXCEPT !.bill = Put(@, id, bill), !.next_id.bill = id]
            d2 == [d1 EXCEPT !.bill_access =
                        @ (+) SetToBag({AccessRow(id, user, OBSERVER)})]
        IN  [db |-> d2, res |-> BillPublic_from_orm_bill(bill), val |-> id]

\* POST /bill/create
create_bill(d, t, user, title) ==
    IF user = None THEN Fail(d, Unauthorized)
    ELSE
        LET id == d.next_id.bill + 1
            bill == Document(BillFields,
                        [title |-> title, members |-> <<>>, created_by |-> user,
                         item_updated_time |-> t])
            d1 == [d EXCEPT !.bill = Put(@, id, bill), !.next_id.bill = id]
            d2 == [d1 EXCEPT !.bill_access =
                        @ (+) SetToBag({AccessRow(id, user, OWNER)})]
        IN  \* the transaction has committed when the response is built
            [db |-> d2, res |-> BillPublic_from_orm_bill(bill), val |-> id]

\* delete_bill without the delete of the Access rows
delete_bill_keeps_access(d, user, id_list) ==
    IF user = None THEN Fail(d, Unauthorized)
    ELSE IF \E member \in DOMAIN d.bill_access :
                /\ member.bill \in id_list
                /\ member.role = OWNER
                /\ member.user # user
         THEN Fail(d, Forbidden)
    ELSE
        LET items == d.bill_item
        IN  Done([d EXCEPT
                    !.bill = Drop(@, id_list),
                    !.bill_item = Drop(@, {i \in DOMAIN items : items[i].bill \in id_list})],
                 "ok")

\* delete_bill without the `user is None` check
delete_bill_unauthenticated(d, user, id_list) ==
    IF \E member \in DOMAIN d.bill_access :
            /\ member.bill \in id_list
            /\ member.role = OWNER
            /\ member.user # user
    THEN Fail(d, Forbidden)
    ELSE
        LET items == d.bill_item
        IN  Done([d EXCEPT
                    !.bill_access = BagKeep(@, {row \in DOMAIN @ : row.bill \notin id_list}),
                    !.bill = Drop(@, id_list),
                    !.bill_item = Drop(@, {i \in DOMAIN items : items[i].bill \in id_list})],
                 "ok")

\* POST /bill/multi/delete
delete_bill(d, user, id_list) ==
    IF user = None THEN Fail(d, Unauthorized)
    ELSE IF \E member \in DOMAIN d.bill_access :
                /\ member.bill \in id_list
                /\ member.role = OWNER
                /\ member.user # user
         THEN Fail(d, Forbidden)
    ELSE
        LET items == d.bill_item
        IN  Done([d EXCEPT
                    !.bill_access = BagKeep(@, {row \in DOMAIN @ : row.bill \notin id_list}),
                    !.bill = Drop(@, id_list),
                    !.bill_item = Drop(@, {i \in DOMAIN items : items[i].bill \in id_list})],
                 "ok")

\* POST /bill/update
update_bill(d, user, id, title) ==
    IF user = None THEN Fail(d, Unauthorized)
    ELSE IF id \notin DOMAIN d.bill THEN Fail(d, NotFound)
    ELSE IF ~\E row \in DOMAIN d.bill_access :
                row.bill = id /\ row.user = user /\ row.role = OWNER
         THEN Fail(d, Forbidden)
    ELSE Done([d EXCEPT !.bill[id].title = title], "ok")

\* the $match, $lookup and $unwind stages of list_bills: the ids of the stored
\* bills the user holds BillAccess rows on, one copy per row
JoinedBills(d, user) ==
    LET rows == {row \in DOMAIN d.bill_access :
                    row.user = user /\ row.bill \in DOMAIN d.bill}
    IN  [b \in {row.bill : row \in rows} |->
            BagCardinality(BagKeep(d.bill_access, {row \in rows : row.bill = b}))]

\* the $sort stage: item_updated_time descending (the order of equal times is
\* the store's)
RECURSIVE SortByItemUpdatedTime(_, _)
SortByItemUpdatedTime(d, B) ==
    IF DOMAIN B = {} THEN <<>>
    ELSE LET b == CHOOSE x \in DOMAIN B :
                     \A y \in DOMAIN B :
                         d.bill[x].item_updated_time >= d.bill[y].item_updated_time
         IN  <<b>> \o SortByItemUpdatedTime(d,
                 [x \in (IF B[b] = 1 THEN DOMAIN B \ {b} ELSE DOMAIN B) |->
                     IF x = b THEN B[x] - 1 ELSE B[x]])

\* the $skip and $limit stages
Page(s, skip, limit) ==
    SubSeq(s, skip + 1, IF skip + limit < Len(s) THEN skip + limit ELSE Len(s))

\* POST /bill/list
list_bills(d, user, params) ==
    IF user = None THEN Fail(d, Unauthorized)
    ELSE
        LET bills == Page(SortByItemUpdatedTime(d, JoinedBills(d, user)),
                          params.skip, params.limit)
        IN  IF \E i \in DOMAIN bills : BillPublic_from_orm_bill(d.bill[bills[i]]) # Ok
            THEN Fail(d, InternalError)
            ELSE Done(d, bills)

\* ----------------------------------------------- src/service/bill/access.py
\* the rows inserted by the loop over params.access_list, as a bag
RECURSIVE AccessListRows(_, _)
AccessListRows(bill_id, access_list) ==
    IF access_list = <<>> THEN EmptyBag
    ELSE SetToBag({AccessRow(bill_id, Head(access_list).user_id, Head(access_list).role)})
         (+) AccessListRows(bill_id, Tail(access_list))

\* update_bill_access without the delete of the existing rows (a merge)
update_bill_access_merge(d, user, bill_id, access_list) ==
    IF user = None THEN Fail(d, Unauthorized)
    ELSE
        LET perm == check_bill_permission(d, bill_id, user, {OWNER})
        IN  IF perm # Ok THEN Fail(d, perm)
            ELSE Done([d EXCEPT !.bill_access =
                            @ (+) AccessListRows(bill_id, access_list)],
                      "ok")

\* POST /bill/access/update
update_bill_access(d, user, bill_id, access_list) ==
    IF user = None THEN Fail(d, Unauthorized)
    ELSE
        LET perm == check_bill_permission(d, bill_id, user, {OWNER})
        IN  IF perm # Ok THEN Fail(d, perm)
            ELSE Done([d EXCEPT !.bill_access =
                            BagKeep(@, {row \in DOMAIN @ : row.bill # bill_id})
                            (+) AccessListRows(bill_id, access_list)],
                      "ok")

\* POST /bill/access/list
list_bill_access(d, user, bill_id) ==
    IF user = None THEN Fail(d, Unauthorized)
    ELSE
        LET perm == check_bill_permission(d, bill_id, user, BillAccessRole)
        IN  IF perm # Ok THEN Fail(d, perm)
            ELSE Done(d, AccessOf(d, bill_id))


\* ----------------------------------------------- src/service/bill/member.py
\* [m.ref.id for m in bill.members]
RosterIds(bill) == Range(bill.members)

\* _txn giving the linked user of the new Member a Member row on the bill
add_bill_member_txn_granting(d, user, params) ==
    LET perm == check_bill_permission(d, params.bill_id, user, {OWNER, MEMBER})
    IN  IF perm # Ok THEN Fail(d, perm)
        ELSE
            LET id == d.next_id.bill_member + 1
                bill_member == Document(BillMemberFields,
                                   [name |-> params.name, linked_user |-> params.user_id])
                grant == IF params.user_id = None THEN EmptyBag
                         ELSE SetToBag({AccessRow(params.bill_id, params.user_id, MEMBER)})
            IN  Done([d EXCEPT
                        !.bill_member = Put(@, id, bill_member),
                        !.next_id.bill_member = id,
                        !.bill[params.bill_id].members = Append(@, id),
                        !.bill_access = @ (+) grant],
                     id)

\* the unit of work _txn of POST /bill/member/add
add_bill_member_txn(d, user, params) ==
    LET perm == check_bill_permission(d, params.bill_id, user, {OWNER, MEMBER})
    IN  IF perm # Ok THEN Fail(d, perm)
        ELSE
            LET id == d.next_id.bill_member + 1
                bill_member == Document(BillMemberFields,
                                   [name |-> params.name, linked_user |-> params.user_id])
            IN  Done([d EXCEPT
                        !.bill_member = Put(@, id, bill_member),
                        !.next_id.bill_member = id,
                        !.bill[params.bill_id].members = Append(@, id)],
                     id)

\* POST /bill/member/add
add_bill_member(d, user, params) ==
    IF user = None THEN Fail(d, Unauthorized)
    ELSE add_bill_member_txn(d, user, params)

\* remove_bill_member without the check that the member is on the roster
remove_bill_member_any_roster(d, user, params) ==
    IF user = None THEN Fail(d, Unauthorized)
    ELSE
        LET perm == check_bill_permission(d, params.bill_id, user, {OWNER, MEMBER})
        IN  IF perm # Ok THEN Fail(d, perm)
            ELSE IF params.bill_member_id \notin DOMAIN d.bill_member
                 THEN Fail(d, NotFound)
            ELSE Done([d EXCEPT
                        !.bill[params.bill_id].members = Without(@, params.bill_member_id),
                        !.bill_member = Drop(@, {params.bill_member_id})],
                      "ok")

\* remove_bill_member without its bill.save(): the row goes, the roster stays
remove_bill_member_unsaved(d, user, params) ==
    IF user = None THEN Fail(d, Unauthorized)
    ELSE
        LET perm == check_bill_permission(d, params.bill_id, user, {OWNER, MEMBER})
        IN  IF perm # Ok THEN Fail(d, perm)
            ELSE IF params.bill_member_id \notin DOMAIN d.bill_member
                 THEN Fail(d, NotFound)
            ELSE IF params.bill_member_id \notin RosterIds(d.bill[params.bill_id])
                 THEN Fail(d, BadRequest)
            ELSE Done([d EXCEPT !.bill_member = Drop(@, {params.bill_member_id})],
                      "ok")

\* POST /bill/member/remove
remove_bill_member(d, user, params) ==
    IF user = None THEN Fail(d, Unauthorized)
    ELSE
        LET perm == check_bill_permission(d, params.bill_id, user, {OWNER, MEMBER})
        IN  IF perm # Ok THEN Fail(d, perm)
            ELSE IF params.bill_member_id \notin DOMAIN d.bill_member
                 THEN Fail(d, NotFound)
            ELSE IF params.bill_member_id \notin RosterIds(d.bill[params.bill_id])
                 THEN Fail(d, BadRequest)
            ELSE Done([d EXCEPT
                        !.bill[params.bill_id].members = Without(@, params.bill_member_id),
                        !.bill_member = Drop(@, {params.bill_member_id})],
                      "ok")

\* POST /bill/member/bind
bind_bill_member(d, user, params) ==
    IF user = None THEN Fail(d, Unauthorized)
    ELSE
        LET perm == check_bill_permission(d, params.bill_id, user, {OWNER, MEMBER})
        IN  IF perm # Ok THEN Fail(d, perm)
            ELSE IF \/ params.bill_member_id \notin DOMAIN d.bill_member
                    \/ params.bill_member_id \notin RosterIds(d.bill[params.bill_id])
                 THEN Fail(d, NotFound)
            ELSE Done([d EXCEPT
                        !.bill_member[params.bill_member_id].linked_user = params.user_id],
                      "ok")

\* POST /bill/member/update
update_bill_member(d, user, params) ==
    IF user = None THEN Fail(d, Unauthorized)
    ELSE
        LET perm == check_bill_permission(d, params.bill_id, user, {OWNER, MEMBER})
        IN  IF perm # Ok THEN Fail(d, perm)
            ELSE IF \/ params.bill_member_id \notin DOMAIN d.bill_member
                    \/ params.bill_member_id \notin RosterIds(d.bill[params.bill_id])
                 THEN Fail(d, NotFound)
            ELSE Done([d EXCEPT
                        !.bill_member[params.bill_member_id].name = params.name],
                      "ok")

\* ------------------------------------------------ src/service/bill/share.py
\* optional numbers (datetime | None, int | None, PydanticObjectId | None):
\* <<>> is None and <<v>> is the value v
NoValue == <<>>
Some(v) == <<v>>
IsNone(x) == x = <<>>
Opt(S) == {NoValue} \cup {Some(v) : v \in S}

\* POST /bill/share/
share_bill(d, user, params) ==
    IF user = None THEN Fail(d, Unauthorized)
    ELSE
        LET perm == check_bill_permission(d, params.bill_id, user, {OWNER})
            bound == params.bill_member_id
        IN  IF perm # Ok THEN Fail(d, perm)
            \* BillMember.get returned None: bill_member.id raises
            ELSE IF ~IsNone(bound) /\ bound[1] \notin DOMAIN d.bill_member
                 THEN Fail(d, InternalError)
            ELSE IF ~IsNone(bound) /\ bound[1] \notin RosterIds(d.bill[params.bill_id])
                 THEN Fail(d, NotFound)
            ELSE
                LET token == d.next_id.bill_share_token + 1
                    bill_share_token == Document(BillShareTokenFields,
                        [token |-> token,
                         bill |-> params.bill_id,
                         access_role |-> params.access_role,
                         created_by |-> user,
                         expires_at |-> params.expires_at,
                         remaining_uses |-> params.remaining_uses,
                         bill_member |-> bound])
                IN  Done([d EXCEPT
                            !.bill_share_token = Put(@, token, bill_share_token),
                            !.next_id.bill_share_token = token],
                         token)

\* POST /bill/share/delete_all
delete_all_share_tokens(d, user, bill_id) ==
    IF user = None THEN Fail(d, Unauthorized)
    ELSE
        LET perm == check_bill_permission(d, bill_id, user, {OWNER})
            tokens == d.bill_share_token
        IN  IF perm # Ok THEN Fail(d, perm)
            ELSE Done([d EXCEPT !.bill_share_token =
                            Drop(@, {k \in DOMAIN tokens : tokens[k].bill = bill_id})],
                      "ok")

\* the writes of a redemption that passed its checks (share.py lines 96-108)
consume_writes(d, user, token, share_token) ==
    LET d1 == [d EXCEPT !.bill_access =
                    @ (+) SetToBag({AccessRow(share_token.bill, user, share_token.access_role)})]
    IN  IF ~HasAttr(share_token, "bill_member") THEN Fail(d, InternalError)
        \* BillMember.get returned None: bill_member.linked_user = ... raises
        ELSE IF /\ ~IsNone(share_token.bill_member)
                /\ share_token.bill_member[1] \notin DOMAIN d.bill_member
             THEN Fail(d, InternalError)
        ELSE
            LET d2 == IF IsNone(share_token.bill_member) THEN d1
                      ELSE [d1 EXCEPT
                              !.bill_member[share_token.bill_member[1]].linked_user = user]
                d3 == IF IsNone(share_token.remaining_uses) THEN d2
                      ELSE [d2 EXCEPT
                              !.bill_share_token[token].remaining_uses =
                                  Some(share_token.remaining_uses[1] - 1)]
            IN  Done(d3, share_token.bill)

\* consume_share_bill_token without the `share_token is None` check: the
\* attribute read on None raises
consume_share_bill_token_unchecked(d, t, user, token) ==
    IF user = None THEN Fail(d, Unauthorized)
    ELSE IF token \notin DOMAIN d.bill_share_token THEN Fail(d, InternalError)
    ELSE
        LET share_token == d.bill_share_token[token]
        IN  IF ~HasAttr(share_token, "expires_at") THEN Fail(d, InternalError)
            ELSE IF ~IsNone(share_token.expires_at) /\ share_token.expires_at[1] < t
                 THEN Fail(d, BadRequest)
            ELSE IF ~HasAttr(share_token, "remaining_uses") THEN Fail(d, InternalError)
            ELSE IF /\ ~IsNone(share_token.remaining_uses)
                    /\ share_token.remaining_uses[1] <= 0
                 THEN Fail(d, BadRequest)
            ELSE IF \E row \in DOMAIN d.bill_access :
                        row.bill = share_token.bill /\ row.user = user
                 THEN Fail(d, BadRequest)
            ELSE consume_writes(d, user, token, share_token)

\* consume_share_bill_token with the BillAccess row inserted first, outside
\* the session: the row stays when a later statement raises
consume_share_bill_token_insert_first(d, t, user, token) ==
    IF user = None THEN Fail(d, Unauthorized)
    ELSE IF token \notin DOMAIN d.bill_share_token THEN Fail(d, NotFound)
    ELSE
        LET share_token == d.bill_share_token[token]
            d1 == [d EXCEPT !.bill_access =
                     @ (+) SetToBag({AccessRow(share_token.bill, user,
                                               share_token.access_role)})]
        IN  IF ~HasAttr(share_token, "expires_at") THEN Fail(d1, InternalError)
            ELSE IF ~IsNone(share_token.expires_at) /\ share_token.expires_at[1] < t
                 THEN Fail(d1, BadRequest)
            ELSE IF ~HasAttr(share_token, "remaining_uses") THEN Fail(d1, InternalError)
            ELSE IF /\ ~IsNone(share_token.remaining_uses)
                    /\ share_token.remaining_uses[1] <= 0
                 THEN Fail(d1, BadRequest)
            ELSE IF \E row \in DOMAIN d.bill_access :
                        row.bill = share_token.bill /\ row.user = user
                 THEN Fail(d1, BadRequest)
            ELSE consume_writes(d, user, token, share_token)

\* POST /bill/share/consume
consume_share_bill_token(d, t, user, token) ==
    IF user = None THEN Fail(d, Unauthorized)
    ELSE IF token \notin DOMAIN d.bill_share_token THEN Fail(d, NotFound)
    ELSE
        LET share_token == d.bill_share_token[token]
        IN  \* reading an attribute the document class does not declare raises
            IF ~HasAttr(share_token, "expires_at") THEN Fail(d, InternalError)
            ELSE IF ~IsNone(share_token.expires_at) /\ share_token.expires_at[1] < t
                 THEN Fail(d, BadRequest)
            ELSE IF ~HasAttr(share_token, "remaining_uses") THEN Fail(d, InternalError)
            ELSE IF /\ ~IsNone(share_token.remaining_uses)
                    /\ share_token.remaining_uses[1] <= 0
                 THEN Fail(d, BadRequest)
            ELSE IF \E row \in DOMAIN d.bill_access :
                        row.bill = share_token.bill /\ row.user = user
                 THEN Fail(d, BadRequest)
            ELSE consume_writes(d, user, token, share_token)

\* POST /bill/share/list
list_share_tokens(d, user, bill_id) ==
    IF user = None THEN Fail(d, Unauthorized)
    ELSE
        LET perm == check_bill_permission(d, bill_id, user, {OWNER})
            tokens == d.bill_share_token
        IN  IF perm # Ok THEN Fail(d, perm)
            ELSE Done(d, {k \in DOMAIN tokens : tokens[k].bill = bill_id})

\* delete_share_token finding the token by its string alone
delete_share_token_by_token(d, user, token, bill_id) ==
    IF user = None THEN Fail(d, Unauthorized)
    ELSE
        LET perm == check_bill_permission(d, bill_id, user, {OWNER})
        IN  IF perm # Ok THEN Fail(d, perm)
            ELSE IF token \notin DOMAIN d.bill_share_token THEN Fail(d, NotFound)
            ELSE Done([d EXCEPT !.bill_share_token = Drop(@, {token})], "ok")

\* POST /bill/share/delete
delete_share_token(d, user, token, bill_id) ==
    IF user = None THEN Fail(d, Unauthorized)
    ELSE
        LET perm == check_bill_permission(d, bill_id, user, {OWNER})
        IN  IF perm # Ok THEN Fail(d, perm)
            ELSE IF \/ token \notin DOMAIN d.bill_share_token
                    \/ d.bill_share_token[token].bill # bill_id
                 THEN Fail(d, NotFound)
            ELSE Done([d EXCEPT !.bill_share_token = Drop(@, {token})], "ok")


\* ------------------------------------------------- src/service/bill_item.py
\* Python ==  between the str params.paid_by and an entry of bill.members (a
\* reference to a BillMember): values of different types are never equal
PyEqStrMember(paid_by, member) == FALSE

\* a membership test that every paid_by passes
paid_by_unchecked(paid_by, members) == TRUE

\* params.paid_by in bill.members
paid_by_in_members(paid_by, members) ==
    \E i \in DOMAIN members : PyEqStrMember(paid_by, members[i])

\* get_bill_item_with_permission looking the item up by its id alone
get_bill_item_of_any_bill(d, bill_id, item_id, user, allowed_roles) ==
    LET perm == check_bill_permission(d, bill_id, user, allowed_roles)
    IN  IF perm # Ok THEN perm
        ELSE IF item_id \notin DOMAIN d.bill_item THEN NotFound
        ELSE Ok

\* check_bill_permission, then BillItem.find_one by item id and bill id
get_bill_item_with_permission(d, bill_id, item_id, user, allowed_roles) ==
    LET perm == check_bill_permission(d, bill_id, user, allowed_roles)
    IN  IF perm # Ok THEN perm
        ELSE IF \/ item_id \notin DOMAIN d.bill_item
                \/ d.bill_item[item_id].bill # bill_id
             THEN NotFound
        ELSE Ok

\* POST /bill/item/create
create_bill_item(d, t, user, params) ==
    IF user = None THEN Fail(d, Unauthorized)
    ELSE
        LET perm == check_bill_permission(d, params.bill_id, user, {OWNER, MEMBER})
        IN  IF perm # Ok THEN Fail(d, perm)
            ELSE IF ~paid_by_in_members(params.paid_by, d.bill[params.bill_id].members)
                 THEN Fail(d, BadRequest)
            ELSE
                LET id == d.next_id.bill_item + 1
                    item == Document(BillItemFields,
                               [bill |-> params.bill_id, type |-> params.type,
                                type_icon |-> params.type_icon,
                                description |-> params.description,
                                amount |-> params.amount,
                                currency |-> params.currency, created_by |-> user,
                                paid_by |-> params.paid_by, created_time |-> t,
                                occurred_time |-> params.occurred_time])
                IN  Done([d EXCEPT !.bill_item = Put(@, id, item),
                                   !.next_id.bill_item = id],
                         id)

\* POST /bill/item/delete
delete_bill_item(d, user, params) ==
    IF user = None THEN Fail(d, Unauthorized)
    ELSE
        LET got == get_bill_item_with_permission(d, params.bill_id, params.item_id,
                                                 user, {OWNER, MEMBER})
        IN  IF got # Ok THEN Fail(d, got)
            ELSE Done([d EXCEPT !.bill_item = Drop(@, {params.item_id})], "ok")

\* POST /bill/item/list
list_bill_items(d, user, params) ==
    IF user = None THEN Fail(d, Unauthorized)
    ELSE
        LET perm == check_bill_permission(d, params.bill_id, user, BillAccessRole)
            items == d.bill_item
        IN  IF perm # Ok THEN Fail(d, perm)
            ELSE Done(d, {i \in DOMAIN items : items[i].bill = params.bill_id})

\* POST /bill/item/update
update_bill_item(d, user, params) ==
    IF user = None THEN Fail(d, Unauthorized)
    ELSE
        LET got == get_bill_item_with_permission(d, params.bill_id, params.item_id,
                                                 user, {OWNER, MEMBER})
        IN  IF got # Ok THEN Fail(d, got)
            ELSE IF ~paid_by_in_members(params.paid_by, d.bill[params.bill_id].members)
                 THEN Fail(d, BadRequest)
            ELSE Done([d EXCEPT
                        !.bill_item[params.item_id].type = params.type,
                        !.bill_item[params.item_id].type_icon = params.type_icon,
                        !.bill_item[params.item_id].description = params.description,
                        !.bill_item[params.item_id].amount = params.amount,
                        !.bill_item[params.item_id].currency = params.currency,
                        !.bill_item[params.item_id].occurred_time = params.occurred_time],
                      "ok")

\* ------------------------------------------------------ src/service/user.py
\* The clock counts half days.
Day == 2
\* timedelta(days=30)
SessionLife == 30 * Day

\* str(uuid4()): the n-th value generated, different from all others
uuid4(n) == <<"session-1", "session-2", "session-3">>[n]

\* sha256(...).hexdigest(): equal digests only for equal passwords
sha256(password) == <<"sha256", password>>

\* the user collection: the registered users, with their password digests
User == [u \in Users |-> [username |-> u, password_sha256 |-> sha256("pw1")]]

\* parse_user_session extending the session on every read
parse_user_session_eager(d, t, session) ==
    IF session = None THEN [do |-> "return", user |-> None]
    ELSE IF session \notin DOMAIN d.user_session THEN [do |-> "return", user |-> None]
    ELSE
        LET user_session == d.user_session[session]
        IN  IF user_session.expires_at < t
            THEN [do |-> "delete", user |-> None]
            ELSE [do |-> "save", user |-> user_session.user,
                  doc |-> [user_session EXCEPT !.expires_at = t + SessionLife]]

\* parse_user_session from its start to its first write to the store: it
\* returns, or goes on to delete the session, or to save it with a new expiry
parse_user_session(d, t, session) ==
    IF session = None THEN [do |-> "return", user |-> None]
    ELSE IF session \notin DOMAIN d.user_session THEN [do |-> "return", user |-> None]
    ELSE
        LET user_session == d.user_session[session]
        IN  IF user_session.expires_at < t
            THEN [do |-> "delete", user |-> None]
            ELSE IF user_session.expires_at - t < Day
            THEN [do |-> "save", user |-> user_session.user,
                  doc |-> [user_session EXCEPT !.expires_at = t + SessionLife]]
            ELSE [do |-> "return", user |-> user_session.user]

\* POST /user/login
login_user(d, t, params) ==
    IF params.username \notin DOMAIN User THEN Fail(d, BadRequest)
    ELSE IF sha256(params.password) # User[params.username].password_sha256
         THEN Fail(d, BadRequest)
    ELSE
        LET value == uuid4(d.next_id.user_session + 1)
        IN  Done([d EXCEPT
                    !.user_session = Put(@, value,
                        [expires_at |-> t + SessionLife, user |-> params.username]),
                    !.next_id.user_session = @ + 1],
                 value)

\* ------------------------------------------------------------ input spaces
\* A scope S bounds the requests of one specification: the ids they address
\* (ids not yet created stand for ids that do not exist), how many
\* documents are ever created, and the values of the other parameters.
Titles == {"Trip"}                      \* titles given to create
NewTitles == {"Dinner"}                 \* titles given to update
MemberNames == {"Bob"}                  \* names given to member/add
NewMemberNames == {"Rob"}               \* names given to member/update
ItemTypes == {"food"}
Amounts == {"12.34"}
Icons == {"icon"}
Descriptions == {"lunch"}
Currencies == {"CNY"}

Access == [user_id : Users, role : BillAccessRole]
\* the entries the access lists of scope S are made of, and those lists
Grants(S) == IF "grants" \in DOMAIN S THEN S.grants ELSE Access
AccessLists(S) == UNION {[1..k -> Grants(S)] : k \in 0..S.access_list}

BillIds(S) == 1..S.bills
MemberIds(S) == 1..S.members
TokenIds(S) == 1..S.tokens

AddBillMemberParams(S) == [bill_id : BillIds(S), name : MemberNames, user_id : S.links]
RemoveBillMemberParams(S) == [bill_id : BillIds(S), bill_member_id : MemberIds(S)]
BindBillMemberParams(S) ==
    [bill_id : BillIds(S), bill_member_id : MemberIds(S), user_id : S.links]
UpdateBillMemberParams(S) ==
    [bill_id : BillIds(S), bill_member_id : MemberIds(S), name : NewMemberNames]
ShareBillParams(S) ==
    [bill_id : BillIds(S), access_role : S.roles, expires_at : S.expires_at,
     remaining_uses : S.remaining_uses, bill_member_id : Opt(MemberIds(S))]
CreateBillItemParams(S) ==
    [bill_id : BillIds(S), type : ItemTypes, type_icon : Icons,
     description : Descriptions, amount : Amounts, currency : Currencies,
     paid_by : MemberNames, occurred_time : {0}]
\* the item ids of the requests of scope S
ItemIds(S) == IF "items" \in DOMAIN S THEN 1..S.items ELSE {1}
ItemParams(S) == [bill_id : BillIds(S), item_id : ItemIds(S)]
ListBillItemParams(S) == [bill_id : BillIds(S)]
UpdateBillItemParams(S) ==
    [bill_id : BillIds(S), item_id : ItemIds(S), type : ItemTypes, type_icon : Icons,
     description : Descriptions, amount : Amounts, currency : Currencies,
     paid_by : MemberNames, occurred_time : {0}]
ListBillParams(S) == [skip : {0}, limit : {16}]
ApiUser == [username : Users \cup {"mallory"}, password : {"pw1", "pw2"}]
\* the session cookies presented: the values issued, and one that never is
Cookies(S) == {uuid4(n) : n \in 1..S.sessions} \cup {"forged"}

\* Spec: every handler, at one instant
Whole == [bills |-> MaxBills, members |-> MaxMembers, tokens |-> MaxTokens,
          access_list |-> MaxAccessList, links |-> {None, "carol"},
          roles |-> {OBSERVER}, expires_at |-> {NoValue},
          remaining_uses |-> {NoValue}]
\* SpecAccess: the bill lifecycle and the access roster
AccessScope == [bills |-> AccessBills, access_list |-> MaxAccessList]
\* SpecBatch: the same handlers over two bills
BatchScope == [bills |-> BatchBills, access_list |-> MaxAccessList]
\* SpecShare: the share-token protocol, with the clock
ShareScope == [bills |-> ShareBills, members |-> ShareMembers, tokens |-> ShareTokens,
               access_list |-> MaxAccessList, links |-> {None},
               roles |-> BillAccessRole, expires_at |-> Opt({0}),
               remaining_uses |-> Opt({0, 1})]

\* SpecToken: the life of a share token (issue, redeem, revoke, the clock)
TokenScope == [bills |-> TokenBills, members |-> 0, tokens |-> TokenTokens,
               roles |-> {MEMBER}, expires_at |-> Opt({0}),
               remaining_uses |-> Opt({0, 1})]

\* SpecItem: the ledger items of a bill and the roster they refer to
ItemScope == [bills |-> ItemBills, members |-> ItemMembers,
              access_list |-> MaxAccessList, links |-> {None},
              grants |-> [user_id : {"carol"}, role : {MEMBER, OBSERVER}]]

\* ------------------------------------------------------------------- state
Init ==
    /\ db = [bill |-> <<>>, bill_access |-> EmptyBag, bill_member |-> <<>>,
             bill_item |-> <<>>, bill_share_token |-> <<>>, user_session |-> <<>>,
             next_id |-> [bill |-> 0, bill_member |-> 0, bill_item |-> 0,
                          bill_share_token |-> 0, user_session |-> 0]]
    /\ now = 0
    /\ last = Idle
    /\ shareRequests = <<>>
    /\ txns = [p \in Procs |-> NoTxn]

\* the request (op, user, bill, arg) is handled with result r
Handled(op, user, bill, arg, r) ==
    /\ last = Idle
    /\ db' = r.db
    /\ last' = [op |-> op, user |-> user, bill |-> bill, arg |-> arg,
                res |-> r.res, val |-> r.val]
    /\ UNCHANGED <<now, txns>>

\* ----------------------------------------------------------------- actions
\* the callers of the requests of scope S
CallersOf(S) == IF "callers" \in DOMAIN S THEN S.callers ELSE Callers

Call_create_bill(S) ==
    \E user \in CallersOf(S), title \in Titles :
        /\ db.next_id.bill < S.bills
        /\ Handled("create", user, db.next_id.bill + 1, title,
                   create_bill(db, now, user, title))
        /\ UNCHANGED shareRequests

Call_delete_bill(S) ==
    \E user \in CallersOf(S), id_list \in SUBSET BillIds(S) :
        /\ Handled("delete_bill", user, 0, id_list, delete_bill(db, user, id_list))
        /\ UNCHANGED shareRequests

Call_list_bills(S) ==
    \E user \in CallersOf(S), params \in ListBillParams(S) :
        /\ Handled("list", user, 0, params, list_bills(db, user, params))
        /\ UNCHANGED shareRequests

Call_update_bill(S) ==
    \E user \in CallersOf(S), id \in BillIds(S), title \in NewTitles :
        /\ Handled("update", user, id, title, update_bill(db, user, id, title))
        /\ UNCHANGED shareRequests

Call_update_bill_access(S) ==
    \E user \in CallersOf(S), bill_id \in BillIds(S), access_list \in AccessLists(S) :
        /\ Handled("update_access", user, bill_id, access_list,
                   update_bill_access(db, user, bill_id, access_list))
        /\ UNCHANGED shareRequests

Call_list_bill_access(S) ==
    \E user \in CallersOf(S), bill_id \in BillIds(S) :
        /\ Handled("list_access", user, bill_id, None, list_bill_access(db, user, bill_id))
        /\ UNCHANGED shareRequests

Call_add_bill_member(S) ==
    \E user \in CallersOf(S), params \in AddBillMemberParams(S) :
        /\ db.next_id.bill_member < S.members
        /\ Handled("add_member", user, params.bill_id, params,
                   add_bill_member(db, user, params))
        /\ UNCHANGED shareRequests

Call_remove_bill_member(S) ==
    \E user \in CallersOf(S), params \in RemoveBillMemberParams(S) :
        /\ Handled("remove_member", user, params.bill_id, params,
                   remove_bill_member(db, user, params))
        /\ UNCHANGED shareRequests

Call_bind_bill_member(S) ==
    \E user \in CallersOf(S), params \in BindBillMemberParams(S) :
        /\ Handled("bind_member", user, params.bill_id, params,
                   bind_bill_member(db, user, params))
        /\ UNCHANGED shareRequests

Call_update_bill_member(S) ==
    \E user \in CallersOf(S), params \in UpdateBillMemberParams(S) :
        /\ Handled("update_member", user, params.bill_id, params,
                   update_bill_member(db, user, params))
        /\ UNCHANGED shareRequests

Call_share_bill(S) ==
    \E user \in CallersOf(S), params \in ShareBillParams(S) :
        /\ db.next_id.bill_share_token < S.tokens
        /\ LET r == share_bill(db, user, params)
           IN  /\ Handled("issue", user, params.bill_id, params, r)
               /\ shareRequests' = IF r.res = Ok THEN Put(shareRequests, r.val, params)
                                   ELSE shareRequests

Call_delete_all_share_tokens(S) ==
    \E user \in CallersOf(S), bill_id \in BillIds(S) :
        /\ Handled("revoke_all", user, bill_id, None,
                   delete_all_share_tokens(db, user, bill_id))
        /\ UNCHANGED shareRequests

Call_consume_share_bill_token(S) ==
    \E user \in CallersOf(S), token \in TokenIds(S) :
        /\ Handled("redeem", user, 0, token,
                   consume_share_bill_token(db, now, user, token))
        /\ UNCHANGED shareRequests

Call_list_share_tokens(S) ==
    \E user \in CallersOf(S), bill_id \in BillIds(S) :
        /\ Handled("list_tokens", user, bill_id, None, list_share_tokens(db, user, bill_id))
        /\ UNCHANGED shareRequests

Call_delete_share_token(S) ==
    \E user \in CallersOf(S), token \in TokenIds(S), bill_id \in BillIds(S) :
        /\ Handled("revoke", user, bill_id, token,
                   delete_share_token(db, user, token, bill_id))
        /\ UNCHANGED shareRequests

Call_create_bill_item(S) ==
    \E user \in CallersOf(S), params \in CreateBillItemParams(S) :
        /\ Handled("create_item", user, params.bill_id, params,
                   create_bill_item(db, now, user, params))
        /\ UNCHANGED shareRequests

Call_delete_bill_item(S) ==
    \E user \in CallersOf(S), params \in ItemParams(S) :
        /\ Handled("delete_item", user, params.bill_id, params,
                   delete_bill_item(db, user, params))
        /\ UNCHANGED shareRequests

Call_list_bill_items(S) ==
    \E user \in CallersOf(S), params \in ListBillItemParams(S) :
        /\ Handled("list_items", user, params.bill_id, params,
                   list_bill_items(db, user, params))
        /\ UNCHANGED shareRequests

Call_update_bill_item(S) ==
    \E user \in CallersOf(S), params \in UpdateBillItemParams(S) :
        /\ Handled("update_item", user, params.bill_id, params,
                   update_bill_item(db, user, params))
        /\ UNCHANGED shareRequests

\* the response has been sent: the server takes the next request
Respond ==
    /\ last # Idle
    /\ last' = Idle
    /\ UNCHANGED <<db, now, shareRequests, txns>>

\* time passes between requests
Tick ==
    /\ last = Idle
    /\ now < MaxTime
    /\ now' = now + 1
    /\ UNCHANGED <<db, last, shareRequests, txns>>


\* --------------------------------------------- transactions (src/db/client.py)
\* Requests are served concurrently.  A handler runs its reads and writes in a
\* MongoDB transaction (snapshot isolation): it reads the store as it was
\* when the transaction began, its writes are buffered until the commit, and
\* a write to a document that another transaction has changed since the
\* snapshot, or has written and not yet committed, raises a write conflict
\* (a TransientTransactionError) that aborts the transaction.
Retries == 3        \* run_transaction_with_retry(fn, retries=3)
backoff == 1        \* ... backoff=0.1: times slept are in tenths of a second

\* asyncio.sleep(backoff * (2 ** attempt)) with the same time slept every turn
BackoffDelay_constant(attempt) == backoff

\* the time slept after the conflict of attempt `attempt` (counted from 0)
BackoffDelay(attempt) == backoff * (2 ^ attempt)

Collections == {"bill", "bill_member", "bill_item", "bill_share_token"}
\* the documents of store d, without the id generators
Data(d) == [c \in Collections \cup {"bill_access"} |-> d[c]]

\* the handler of request req on store d at time t
Serve(req, d, t) ==
    CASE req.op = "create" -> create_bill(d, t, req.user, req.arg)
      [] req.op = "delete_bill" -> delete_bill(d, req.user, req.arg)
      [] req.op = "update" -> update_bill(d, req.user, req.bill, req.arg)
      [] req.op = "update_access" -> update_bill_access(d, req.user, req.bill, req.arg)
      [] req.op = "add_member" -> add_bill_member(d, req.user, req.arg)
      [] req.op = "remove_member" -> remove_bill_member(d, req.user, req.arg)
      [] req.op = "issue" -> share_bill(d, req.user, req.arg)
      [] req.op = "redeem" -> consume_share_bill_token(d, t, req.user, req.arg)

\* the write statements of each handler, in the order of its code
WriteOrder(op) ==
    CASE op = "create" -> <<"bill", "access_insert">>
      [] op = "delete_bill" -> <<"access_delete", "bill", "bill_item">>
      [] op = "update" -> <<"bill">>
      [] op = "update_access" -> <<"access_delete", "access_insert">>
      [] op = "add_member" -> <<"bill_member", "bill">>
      [] op = "remove_member" -> <<"bill", "bill_member">>
      [] op = "issue" -> <<"bill_share_token">>
      [] op = "redeem" -> <<"access_insert", "bill_member", "bill_share_token">>

\* update_bill_access with its delete run outside the session
InSession_delete_unbound(op, stage) ==
    ~(op = "update_access" /\ stage = "access_delete")

\* add_bill_member with its insert of the BillMember run outside the session
InSession_insert_unbound(op, stage) ==
    ~(op = "add_member" /\ stage = "bill_member")

\* every write statement of every handler is given session=session
InSession(op, stage) == TRUE

\* only add_bill_member runs under run_transaction_with_retry
UsesRetry(op) == op = "add_member"

Stages(t) == WriteOrder(t.req.op)

\* what transaction t (snapshot t.snap, outcome t.r) writes
Upserts(t, c) ==
    {k \in DOMAIN t.r.db[c] : k \notin DOMAIN t.snap[c] \/ t.snap[c][k] # t.r.db[c][k]}
Deletes(t, c) == DOMAIN t.snap[c] \ DOMAIN t.r.db[c]
AccessDeletes(t) ==
    IF t.r.res # Ok THEN {}
    ELSE IF t.req.op = "update_access"
         THEN {row \in DOMAIN t.snap.bill_access : row.bill = t.req.bill}
    ELSE IF t.req.op = "delete_bill"
         THEN {row \in DOMAIN t.snap.bill_access : row.bill \in t.req.arg}
    ELSE {}
AccessInserts(t) ==
    t.r.db.bill_access
        (-) BagKeep(t.snap.bill_access, DOMAIN t.snap.bill_access \ AccessDeletes(t))

\* the existing documents / Access rows a write statement of t changes
DocKeys(t, stage) ==
    IF stage \in Collections
    THEN {<<stage, k>> : k \in (Upserts(t, stage) \cap DOMAIN t.snap[stage])
                                  \cup Deletes(t, stage)}
    ELSE {}
RowKeys(t, stage) == IF stage = "access_delete" THEN AccessDeletes(t) ELSE {}
\* ... and those it has written so far
WrittenDocs(t) ==
    IF t.phase # "open" THEN {}
    ELSE UNION {DocKeys(t, Stages(t)[i]) : i \in 1..t.done}
WrittenRows(t) ==
    IF t.phase # "open" THEN {}
    ELSE UNION {RowKeys(t, Stages(t)[i]) : i \in 1..t.done}

\* a store that lets every write through
WriteConflict_never(p, stage) == FALSE

\* the next write statement of p raises a write conflict
WriteConflict(p, stage) ==
    LET t == txns[p]
    IN  \/ \E key \in DocKeys(t, stage) :
              \/ key[2] \notin DOMAIN db[key[1]]
              \/ db[key[1]][key[2]] # t.snap[key[1]][key[2]]
              \/ \E q \in Procs \ {p} : key \in WrittenDocs(txns[q])
        \/ \E row \in RowKeys(t, stage) :
              \/ CopiesIn(row, db.bill_access) # CopiesIn(row, t.snap.bill_access)
              \/ \E q \in Procs \ {p} : row \in WrittenRows(txns[q])

\* the effect of one write statement of t on store d
ApplyStage(d, t, stage) ==
    IF stage = "access_delete"
    THEN [d EXCEPT !.bill_access = BagKeep(@, DOMAIN @ \ AccessDeletes(t))]
    ELSE IF stage = "access_insert"
    THEN [d EXCEPT !.bill_access = @ (+) AccessInserts(t)]
    ELSE LET old == d[stage]
             new == t.r.db[stage]
             ups == Upserts(t, stage)
         IN  [d EXCEPT ![stage] =
                [k \in (DOMAIN old \ Deletes(t, stage)) \cup ups |->
                    IF k \in ups THEN new[k] ELSE old[k]]]

\* the effect of the commit of t: its buffered write statements from i on
RECURSIVE ApplyStages(_, _, _)
ApplyStages(d, t, i) ==
    IF i > Len(Stages(t)) THEN d
    ELSE ApplyStages(IF InSession(t.req.op, Stages(t)[i])
                     THEN ApplyStage(d, t, Stages(t)[i]) ELSE d,
                     t, i + 1)

\* the transaction block of t ran to its end (no exception inside it)
Completes(t) == t.r.res = Ok \/ Data(t.r.db) # Data(t.snap)

\* a request is served in the first free slot
FirstFree(p) == p = "p" \/ txns["p"] # NoTxn

\* the transaction of request req begins: it takes its snapshot; the ids of
\* the documents it will insert are generated now and never reused
Begin(p, req) ==
    /\ last = Idle
    /\ txns[p] = NoTxn
    /\ FirstFree(p)
    /\ LET r == Serve(req, db, now)
       IN  /\ txns' = [txns EXCEPT ![p] =
                         [phase |-> "open", req |-> req, snap |-> db, r |-> r,
                          done |-> 0, attempt |-> 1, waits |-> <<>>]]
           /\ db' = [db EXCEPT !.next_id = r.db.next_id]
    /\ UNCHANGED <<now, last, shareRequests>>

Answer(p, res, val) ==
    /\ last = Idle
    /\ last' = [op |-> txns[p].req.op, user |-> txns[p].req.user,
                bill |-> txns[p].req.bill, arg |-> txns[p].req.arg,
                res |-> res, val |-> val]
    /\ txns' = [txns EXCEPT ![p] = NoTxn]
    /\ UNCHANGED now


Txn_create_bill(S) ==
    \E p \in Procs, user \in CallersOf(S), title \in Titles :
        /\ db.next_id.bill < S.bills
        /\ Begin(p, [op |-> "create", user |-> user,
                     bill |-> db.next_id.bill + 1, arg |-> title])

Txn_delete_bill(S) ==
    \E p \in Procs, user \in CallersOf(S), id_list \in SUBSET BillIds(S) :
        Begin(p, [op |-> "delete_bill", user |-> user, bill |-> 0, arg |-> id_list])

Txn_update_bill(S) ==
    \E p \in Procs, user \in CallersOf(S), id \in BillIds(S), title \in NewTitles :
        Begin(p, [op |-> "update", user |-> user, bill |-> id, arg |-> title])

Txn_update_bill_access(S) ==
    \E p \in Procs, user \in CallersOf(S), bill_id \in BillIds(S),
       access_list \in AccessLists(S) :
        Begin(p, [op |-> "update_access", user |-> user, bill |-> bill_id,
                  arg |-> access_list])

Txn_add_bill_member(S) ==
    \E p \in Procs, user \in CallersOf(S), params \in AddBillMemberParams(S) :
        /\ db.next_id.bill_member < S.members
        /\ Begin(p, [op |-> "add_member", user |-> user, bill |-> params.bill_id,
                     arg |-> params])

Txn_remove_bill_member(S) ==
    \E p \in Procs, user \in CallersOf(S), params \in RemoveBillMemberParams(S) :
        Begin(p, [op |-> "remove_member", user |-> user, bill |-> params.bill_id,
                  arg |-> params])

Txn_share_bill(S) ==
    \E p \in Procs, user \in CallersOf(S), params \in ShareBillParams(S) :
        /\ db.next_id.bill_share_token < S.tokens
        /\ Begin(p, [op |-> "issue", user |-> user, bill |-> params.bill_id,
                     arg |-> params])

Txn_consume_share_bill_token(S) ==
    \E p \in Procs, user \in CallersOf(S), token \in TokenIds(S) :
        Begin(p, [op |-> "redeem", user |-> user, bill |-> 0, arg |-> token])

\* the next write statement of a transaction: buffered, or a write conflict
Write ==
    \E p \in Procs :
        LET t == txns[p]
        IN  /\ last = Idle
            /\ t.phase = "open"
            /\ Completes(t)
            /\ t.done < Len(Stages(t))
            /\ LET stage == Stages(t)[t.done + 1]
               IN  IF WriteConflict(p, stage)
                   THEN /\ txns' = [txns EXCEPT ![p] =
                                      [phase |-> "conflict", req |-> t.req,
                                       attempt |-> t.attempt, waits |-> t.waits]]
                        /\ db' = db
                   ELSE /\ txns' = [txns EXCEPT ![p].done = @ + 1]
                        /\ db' = IF InSession(t.req.op, stage) THEN db
                                 ELSE ApplyStage(db, t, stage)
            /\ UNCHANGED <<now, last, shareRequests>>

\* the transaction block ends: the buffered writes are committed together,
\* and the request is answered
Commit ==
    \E p \in Procs :
        LET t == txns[p]
        IN  /\ t.phase = "open"
            /\ Completes(t)
            /\ t.done = Len(Stages(t))
            /\ db' = ApplyStages(db, t, 1)
            /\ Answer(p, t.r.res, t.r.val)
            /\ shareRequests' = IF t.req.op = "issue" /\ t.r.res = Ok
                                THEN Put(shareRequests, t.r.val, t.req.arg)
                                ELSE shareRequests

\* Raise with the failed unit of work of a retried request run once more
Raise_retrying ==
    \E p \in Procs :
        LET t == txns[p]
        IN  /\ last = Idle
            /\ t.phase = "open"
            /\ ~Completes(t)
            /\ IF UsesRetry(t.req.op) /\ t.attempt < Retries
               THEN /\ txns' = [txns EXCEPT ![p].attempt = @ + 1,
                                            ![p].waits = Append(@, BackoffDelay(t.attempt - 1))]
                    /\ UNCHANGED <<db, now, last, shareRequests>>
               ELSE /\ Answer(p, t.r.res, t.r.val)
                    /\ UNCHANGED <<db, shareRequests>>

\* the handler raises inside the transaction block: the transaction aborts
Raise ==
    \E p \in Procs :
        LET t == txns[p]
        IN  /\ t.phase = "open"
            /\ ~Completes(t)
            /\ Answer(p, t.r.res, t.r.val)
            /\ UNCHANGED <<db, shareRequests>>

\* run_transaction_with_retry sleeps, then runs the unit of work again in a
\* new transaction
Retry(S) ==
    \E p \in Procs :
        LET t == txns[p]
        IN  /\ last = Idle
            /\ t.phase = "conflict"
            /\ UsesRetry(t.req.op)
            /\ t.attempt < Retries
            /\ db.next_id.bill_member < S.members
            /\ LET r == Serve(t.req, db, now)
               IN  /\ txns' = [txns EXCEPT ![p] =
                                 [phase |-> "open", req |-> t.req, snap |-> db,
                                  r |-> r, done |-> 0, attempt |-> t.attempt + 1,
                                  waits |-> Append(t.waits,
                                                   BackoffDelay(t.attempt - 1))]]
                   /\ db' = [db EXCEPT !.next_id = r.db.next_id]
            /\ UNCHANGED <<now, last, shareRequests>>

\* the write conflict is not retried: the request is answered with an error
GiveUp ==
    \E p \in Procs :
        LET t == txns[p]
        IN  /\ t.phase = "conflict"
            /\ ~(UsesRetry(t.req.op) /\ t.attempt < Retries)
            /\ Answer(p, InternalError, None)
            /\ UNCHANGED <<db, shareRequests>>

\* the request fails between two writes (the connection or the worker is
\* lost): the transaction is aborted and nothing is answered
Fault ==
    \E p \in Procs :
        /\ last = Idle
        /\ txns[p].phase = "open"
        /\ txns[p].done > 0
        /\ txns' = [txns EXCEPT ![p] = NoTxn]
        /\ UNCHANGED <<db, now, last, shareRequests>>

\* SpecTxn: concurrent requests on one bill
TxnScope == [bills |-> TxnBills, members |-> TxnMembers, tokens |-> TxnTokens,
             access_list |-> MaxAccessList, links |-> {None},
             grants |-> [user_id : {"carol"}, role : {MEMBER}],
             callers |-> {"alice"}, roles |-> {OBSERVER},
             expires_at |-> {NoValue}, remaining_uses |-> {NoValue}]

NextTxn ==
    \/ Txn_create_bill(TxnScope)
    \/ Txn_delete_bill(TxnScope)
    \/ Txn_update_bill_access(TxnScope)
    \/ Txn_add_bill_member(TxnScope)
    \/ Txn_remove_bill_member(TxnScope)
    \/ Txn_share_bill(TxnScope)
    \/ Txn_consume_share_bill_token(TxnScope)
    \/ Write
    \/ Commit
    \/ Raise
    \/ Retry(TxnScope)
    \/ GiveUp
    \/ Fault
    \/ Respond

SpecTxn == Init /\ [][NextTxn]_vars

\* SpecCascade: deletion of bills among other bills
CascadeScope == [bills |-> CascadeBills, access_list |-> MaxAccessList,
                 grants |-> [user_id : {"carol"}, role : {OWNER, MEMBER}]]

NextCascade ==
    \/ Call_create_bill(CascadeScope)
    \/ Call_update_bill_access(CascadeScope)
    \/ Call_delete_bill(CascadeScope)
    \/ Respond

SpecCascade == Init /\ [][NextCascade]_vars

\* SpecRoster: concurrent roster and title changes of one bill
RosterScope == [bills |-> RosterBills, members |-> RosterMembers,
                links |-> {None}, callers |-> {"alice"}]

NextRoster ==
    \/ Txn_create_bill(RosterScope)
    \/ Txn_update_bill(RosterScope)
    \/ Txn_add_bill_member(RosterScope)
    \/ Txn_remove_bill_member(RosterScope)
    \/ Write
    \/ Commit
    \/ Raise
    \/ Retry(RosterScope)
    \/ GiveUp
    \/ Respond

SpecRoster == Init /\ [][NextRoster]_vars

\* SpecRetry: add_member requests under run_transaction_with_retry, beside
\* concurrent title changes of the same bill.  RetryRequests add_member
\* requests are admitted, and each may use an id per attempt.
RetryScope == [bills |-> RetryBills, members |-> RetryRequests * Retries,
               links |-> {None}, callers |-> {"alice"}]
RetryAdmitted == [RetryScope EXCEPT !.members = RetryRequests]

NextRetry ==
    \/ Txn_create_bill(RetryScope)
    \/ Txn_update_bill(RetryScope)
    \/ Txn_add_bill_member(RetryAdmitted)
    \/ Write
    \/ Commit
    \/ Raise
    \/ Retry(RetryScope)
    \/ GiveUp
    \/ Respond

\* the next step of the request served in slot p
Resume(p) ==
    /\ Write \/ Commit \/ Raise \/ Retry(RetryScope) \/ GiveUp
    /\ txns'[p] # txns[p]

\* the event loop resumes every coroutine that can run, and answers are sent
SpecRetry ==
    /\ Init
    /\ [][NextRetry]_vars
    /\ WF_vars(Respond)
    /\ \A p \in Procs : SF_vars(Resume(p))

Next ==
    \/ Call_create_bill(Whole)
    \/ Call_delete_bill(Whole)
    \/ Call_list_bills(Whole)
    \/ Call_update_bill(Whole)
    \/ Call_update_bill_access(Whole)
    \/ Call_list_bill_access(Whole)
    \/ Call_add_bill_member(Whole)
    \/ Call_remove_bill_member(Whole)
    \/ Call_bind_bill_member(Whole)
    \/ Call_update_bill_member(Whole)
    \/ Call_share_bill(Whole)
    \/ Call_delete_all_share_tokens(Whole)
    \/ Call_consume_share_bill_token(Whole)
    \/ Call_list_share_tokens(Whole)
    \/ Call_delete_share_token(Whole)
    \/ Call_create_bill_item(Whole)
    \/ Call_delete_bill_item(Whole)
    \/ Call_list_bill_items(Whole)
    \/ Call_update_bill_item(Whole)
    \/ Respond

Spec == Init /\ [][Next]_vars

\* SpecAnon: every handler, called by an Owner and by callers without identity
AnonScope == [bills |-> AnonBills, members |-> AnonMembers, tokens |-> AnonTokens,
              access_list |-> MaxAccessList, links |-> {None},
              grants |-> [user_id : {"carol"}, role : {MEMBER}],
              callers |-> {None, "alice"},
              roles |-> {OBSERVER}, expires_at |-> {NoValue},
              remaining_uses |-> {NoValue}]

NextAnon ==
    \/ Call_create_bill(AnonScope)
    \/ Call_delete_bill(AnonScope)
    \/ Call_list_bills(AnonScope)
    \/ Call_update_bill(AnonScope)
    \/ Call_update_bill_access(AnonScope)
    \/ Call_list_bill_access(AnonScope)
    \/ Call_add_bill_member(AnonScope)
    \/ Call_remove_bill_member(AnonScope)
    \/ Call_bind_bill_member(AnonScope)
    \/ Call_update_bill_member(AnonScope)
    \/ Call_share_bill(AnonScope)
    \/ Call_delete_all_share_tokens(AnonScope)
    \/ Call_consume_share_bill_token(AnonScope)
    \/ Call_list_share_tokens(AnonScope)
    \/ Call_delete_share_token(AnonScope)
    \/ Call_create_bill_item(AnonScope)
    \/ Call_delete_bill_item(AnonScope)
    \/ Call_list_bill_items(AnonScope)
    \/ Call_update_bill_item(AnonScope)
    \/ Respond

SpecAnon == Init /\ [][NextAnon]_vars

NextAccess ==
    \/ Call_create_bill(AccessScope)
    \/ Call_delete_bill(AccessScope)
    \/ Call_update_bill_access(AccessScope)
    \/ Respond

SpecAccess == Init /\ [][NextAccess]_vars

NextBatch ==
    \/ Call_create_bill(BatchScope)
    \/ Call_delete_bill(BatchScope)
    \/ Call_update_bill(BatchScope)
    \/ Call_update_bill_access(BatchScope)
    \/ Call_list_bill_access(BatchScope)
    \/ Respond

SpecBatch == Init /\ [][NextBatch]_vars

NextShare ==
    \/ Call_create_bill(ShareScope)
    \/ Call_update_bill_access(ShareScope)
    \/ Call_add_bill_member(ShareScope)
    \/ Call_share_bill(ShareScope)
    \/ Call_consume_share_bill_token(ShareScope)
    \/ Call_list_share_tokens(ShareScope)
    \/ Call_delete_share_token(ShareScope)
    \/ Call_delete_all_share_tokens(ShareScope)
    \/ Tick
    \/ Respond

SpecShare == Init /\ [][NextShare]_vars

NextToken ==
    \/ Call_create_bill(TokenScope)
    \/ Call_share_bill(TokenScope)
    \/ Call_consume_share_bill_token(TokenScope)
    \/ Call_delete_share_token(TokenScope)
    \/ Call_delete_all_share_tokens(TokenScope)
    \/ Tick
    \/ Respond

SpecToken == Init /\ [][NextToken]_vars

NextItem ==
    \/ Call_create_bill(ItemScope)
    \/ Call_update_bill_access(ItemScope)
    \/ Call_add_bill_member(ItemScope)
    \/ Call_update_bill_member(ItemScope)
    \/ Call_remove_bill_member(ItemScope)
    \/ Call_create_bill_item(ItemScope)
    \/ Call_delete_bill_item(ItemScope)
    \/ Call_list_bill_items(ItemScope)
    \/ Call_update_bill_item(ItemScope)
    \/ Respond

SpecItem == Init /\ [][NextItem]_vars

\* SpecRemove: the rosters of two bills, changed by an Owner and a Member
RemoveScope == [bills |-> RemoveBills, members |-> RemoveMembers,
                access_list |-> 1, links |-> {None},
                grants |-> [user_id : {"carol"}, role : {MEMBER}],
                callers |-> {"alice", "carol"}]

NextRemove ==
    \/ Call_create_bill(RemoveScope)
    \/ Call_update_bill_access(RemoveScope)
    \/ Call_add_bill_member(RemoveScope)
    \/ Call_remove_bill_member(RemoveScope)
    \/ Respond

SpecRemove == Init /\ [][NextRemove]_vars

\* SpecLedger: a store that holds a ledger item.  No request can write one
\* (create_bill_item refuses every paid_by), so the store starts with bill 1
\* of alice, its Member 1 "Bob" and item 1 paid by that Member, as the
\* bill_item collection declares it (paid_by: Link[BillMember]).
LedgerStore ==
    [bill |-> <<[title |-> "Trip", members |-> <<1>>, created_by |-> "alice",
                 item_updated_time |-> 0]>>,
     bill_access |-> SetToBag({AccessRow(1, "alice", OWNER)}),
     bill_member |-> <<[name |-> "Bob", linked_user |-> None]>>,
     bill_item |-> <<[bill |-> 1, type |-> "taxi", type_icon |-> "car",
                      description |-> "airport", amount |-> "56.78",
                      currency |-> "EUR", created_by |-> "alice", paid_by |-> 1,
                      created_time |-> 0, occurred_time |-> 0]>>,
     bill_share_token |-> <<>>, user_session |-> <<>>,
     next_id |-> [bill |-> 1, bill_member |-> 1, bill_item |-> 1,
                  bill_share_token |-> 0, user_session |-> 0]]

InitLedger ==
    /\ db = LedgerStore
    /\ now = 0
    /\ last = Idle
    /\ shareRequests = <<>>
    /\ txns = [p \in Procs |-> NoTxn]

LedgerScope == [bills |-> LedgerBills, members |-> LedgerMembers, items |-> LedgerItems,
                access_list |-> 1, links |-> {None},
                grants |-> [user_id : {"carol"}, role : {MEMBER}],
                callers |-> {"alice", "carol"}]

NextLedger ==
    \/ Call_create_bill(LedgerScope)
    \/ Call_update_bill_access(LedgerScope)
    \/ Call_add_bill_member(LedgerScope)
    \/ Call_remove_bill_member(LedgerScope)
    \/ Call_create_bill_item(LedgerScope)
    \/ Call_update_bill_item(LedgerScope)
    \/ Call_delete_bill_item(LedgerScope)
    \/ Call_list_bill_items(LedgerScope)
    \/ Respond

SpecLedger == InitLedger /\ [][NextLedger]_vars

\* ------------------------------------------------- sessions (service/user.py)
\* A request resolves its session cookie before its handler runs.  The reads
\* and the write of parse_user_session are separate calls to the store,
\* outside any transaction, and other requests and the clock go on between
\* them.
SessionCookies == 1     \* SpecSession: sessions ever created
SessionMaxTime == 62    \* SpecSession: the clock runs over 0..SessionMaxTime

SessionScope == [sessions |-> SessionCookies]

Call_login_user(S) ==
    \E params \in ApiUser :
        /\ db.next_id.user_session < S.sessions
        /\ Handled("login", None, 0, params, login_user(db, now, params))
        /\ UNCHANGED shareRequests

\* find_one and the checks that follow it; a resolution that writes nothing
\* ends here (with User.get)
parse_user_session_find(S) ==
    \E p \in Procs, session \in Cookies(S) \cup {None} :
        LET plan == parse_user_session(db, now, session)
            req == [op |-> "resolve", user |-> None, bill |-> 0, arg |-> session]
        IN  /\ last = Idle
            /\ txns[p] = NoTxn
            /\ FirstFree(p)
            /\ IF plan.do = "return"
               THEN /\ last' = [op |-> req.op, user |-> req.user, bill |-> req.bill,
                                arg |-> req.arg, res |-> Ok, val |-> plan.user]
                    /\ txns' = txns
               ELSE /\ txns' = [txns EXCEPT ![p] =
                                  [phase |-> plan.do, req |-> req, at |-> now,
                                   found |-> db.user_session[session],
                                   doc |-> IF plan.do = "save" THEN plan.doc
                                           ELSE db.user_session[session]]]
                    /\ last' = last
            /\ UNCHANGED <<db, now, shareRequests>>

\* await user_session.delete()
parse_user_session_delete ==
    \E p \in Procs :
        /\ txns[p].phase = "delete"
        /\ db' = [db EXCEPT !.user_session = Drop(@, {txns[p].req.arg})]
        /\ Answer(p, Ok, None)
        /\ UNCHANGED shareRequests

\* await user_session.save(): the document is written, or inserted again
\* when it is no longer stored; then User.get
parse_user_session_save ==
    \E p \in Procs :
        /\ txns[p].phase = "save"
        /\ db' = [db EXCEPT !.user_session = Put(@, txns[p].req.arg, txns[p].doc)]
        /\ Answer(p, Ok, txns[p].doc.user)
        /\ UNCHANGED shareRequests

\* time passes, also while a request is being served
Elapse ==
    /\ last = Idle
    /\ now < SessionMaxTime
    /\ now' = now + 1
    /\ UNCHANGED <<db, last, shareRequests, txns>>

NextSession ==
    \/ Call_login_user(SessionScope)
    \/ parse_user_session_find(SessionScope)
    \/ parse_user_session_delete
    \/ parse_user_session_save
    \/ Elapse
    \/ Respond

SpecSession == Init /\ [][NextSession]_vars

\* ------------------------------------------------------- claim vocabulary
\* a request was handled in this step
Handles(op) == last = Idle /\ last' # Idle /\ last'.op = op
HandlesAny(ops) == last = Idle /\ last' # Idle /\ last'.op \in ops

\* the roles user u holds on bill b in store d
RolesOf(d, b, u) == {row.role : row \in {x \in DOMAIN d.bill_access :
                                            x.bill = b /\ x.user = u}}
HasAccess(d, b, u) == RolesOf(d, b, u) # {}

OwnerOps == {"update", "update_access", "issue", "list_tokens", "revoke", "revoke_all"}
MemberOps == {"add_member", "remove_member", "bind_member", "update_member",
              "create_item", "update_item", "delete_item"}
ListOps == {"list_items", "list_access"}
MutatingOps == (OwnerOps \ {"list_tokens"}) \cup MemberOps
GatedOps == OwnerOps \cup MemberOps \cup {"list_items"}


\* ------------------------------------------------------------------ claims

\* C1 (as claimed): every gated operation on an existing bill by an
\* authenticated user who has no Access row on it, delete_bill with the bill
\* in its batch included, fails Forbidden and changes nothing.
C1_NoAccessForbidden ==
    [][/\ (/\ HandlesAny(GatedOps)
           /\ last'.user # None
           /\ last'.bill \in DOMAIN db.bill
           /\ ~HasAccess(db, last'.bill, last'.user))
          => (last'.res = Forbidden /\ db' = db)
       /\ (/\ Handles("delete_bill")
           /\ last'.user # None
           /\ \E b \in last'.arg \cap DOMAIN db.bill : ~HasAccess(db, b, last'.user))
          => (last'.res = Forbidden /\ db' = db)]_vars

\* C2 (as claimed): an Observer-only user succeeds at no mutating operation
\* (delete_bill included), a Member-only user at no Owner operation; member
\* and item mutations succeed only for an Owner or Member, and the list
\* operations succeed for every role.
C2_RoleGating ==
    [][/\ (/\ HandlesAny(MutatingOps)
           /\ last'.bill \in DOMAIN db.bill
           /\ RolesOf(db, last'.bill, last'.user) = {OBSERVER})
          => (last'.res = Forbidden /\ db' = db)
       /\ (/\ Handles("delete_bill")
           /\ \E b \in last'.arg \cap DOMAIN db.bill :
                  RolesOf(db, b, last'.user) = {OBSERVER})
          => (last'.res = Forbidden /\ db' = db)
       /\ (/\ HandlesAny(OwnerOps)
           /\ last'.bill \in DOMAIN db.bill
           /\ RolesOf(db, last'.bill, last'.user) = {MEMBER})
          => (last'.res = Forbidden /\ db' = db)
       /\ (HandlesAny(MemberOps) /\ last'.res = Ok)
          => RolesOf(db, last'.bill, last'.user) \cap {OWNER, MEMBER} # {}
       /\ (/\ HandlesAny(ListOps)
           /\ last'.bill \in DOMAIN db.bill
           /\ HasAccess(db, last'.bill, last'.user))
          => last'.res = Ok]_vars

\* C3: a bill becomes visible only through create, by the authenticated
\* caller, with an empty roster and exactly one Access row, (bill, creator,
\* Owner); create by an authenticated caller always inserts the bill; and no
\* Access row refers to a bill that is not in the store.
C3_CreateOwner ==
    /\ [](\A row \in DOMAIN db.bill_access : row.bill \in DOMAIN db.bill)
    /\ [][/\ \A b \in DOMAIN db'.bill \ DOMAIN db.bill :
                /\ Handles("create")
                /\ last'.bill = b
                /\ last'.user # None
                /\ db'.bill[b].members = <<>>
                /\ db'.bill[b].created_by = last'.user
                /\ AccessOf(db', b) = SetToBag({AccessRow(b, last'.user, OWNER)})
          /\ (Handles("create") /\ last'.user # None)
             => last'.bill \in DOMAIN db'.bill \ DOMAIN db.bill]_vars

C3_Witness ==
    /\ last # Idle
    /\ last.op = "create"
    /\ last.bill \in DOMAIN db.bill
    /\ AccessOf(db, last.bill) = SetToBag({AccessRow(last.bill, last.user, OWNER)})

\* C4: update_access by an Owner succeeds, and after it the Access rows of
\* the bill are exactly the (user, role) pairs of the access_list, one row per
\* entry; the rows of other bills and the bills themselves are unchanged.
C4_FullReplace ==
    [][Handles("update_access") =>
         /\ (last'.user # None /\ OWNER \in RolesOf(db, last'.bill, last'.user))
            <=> last'.res = Ok
         /\ last'.res = Ok =>
              /\ BagToSet(AccessOf(db', last'.bill))
                   = {AccessRow(last'.bill, a.user_id, a.role) : a \in Range(last'.arg)}
              /\ BagCardinality(AccessOf(db', last'.bill)) = Len(last'.arg)
              /\ \A b \in DOMAIN db.bill \ {last'.bill} : AccessOf(db', b) = AccessOf(db, b)
              /\ db'.bill = db.bill]_vars

\* an Owner replaced the roster by a non-empty list that does not name them
C4_Witness ==
    /\ last # Idle
    /\ last.op = "update_access"
    /\ last.res = Ok
    /\ last.arg # <<>>
    /\ ~HasAccess(db, last.bill, last.user)
    /\ BagToSet(AccessOf(db, last.bill))
         = {AccessRow(last.bill, a.user_id, a.role) : a \in Range(last.arg)}

\* C5 (as claimed): delete_bill of a batch holding an existing bill on which
\* the caller has no Owner row fails Forbidden and deletes nothing.
C5_BatchAllOrNothing ==
    [][(/\ Handles("delete_bill")
        /\ last'.user # None
        /\ \E b \in last'.arg \cap DOMAIN db.bill :
               OWNER \notin RolesOf(db, b, last'.user))
       => (last'.res = Forbidden /\ db' = db)]_vars

\* the ShareBillParams token t was issued with
Granted(t) == shareRequests[t]
Issued(d) == 1..d.next_id.bill_share_token
Expired(t, time) ==
    ~IsNone(Granted(t).expires_at) /\ Granted(t).expires_at[1] < time
Revoked(d, t) == t \in Issued(d) /\ t \notin DOMAIN d.bill_share_token
\* a redemption of the existing token t by an authenticated user in this step
Redeems(t) ==
    /\ Handles("redeem")
    /\ last'.arg = t
    /\ last'.user # None
    /\ t \in DOMAIN db.bill_share_token

\* C6 (as claimed): a token issued with remaining_uses = n keeps that counter:
\* it is never negative, a successful redemption decrements it by one, a
\* redemption at 0 fails BadRequest with the token still stored, and a
\* redemption of an unexpired token with uses left by a user without Access
\* succeeds.
C6_UsageBudget ==
    [][\A t \in DOMAIN db.bill_share_token :
         (Redeems(t) /\ ~IsNone(Granted(t).remaining_uses)) =>
            /\ HasAttr(db.bill_share_token[t], "remaining_uses")
            /\ LET left == db.bill_share_token[t].remaining_uses[1]
               IN  /\ left >= 0
                   /\ left = 0 =>
                        (last'.res = BadRequest /\ t \in DOMAIN db'.bill_share_token)
                   /\ last'.res = Ok =>
                        db'.bill_share_token[t].remaining_uses = Some(left - 1)
                   /\ (/\ left > 0
                       /\ ~Expired(t, now)
                       /\ ~HasAccess(db, db.bill_share_token[t].bill, last'.user))
                      => last'.res = Ok]_vars

\* C7 (as claimed): redeeming a token whose expires_at is earlier than the
\* current time fails BadRequest and changes nothing.
C7_ExpiredBadRequest ==
    [][\A t \in DOMAIN db.bill_share_token :
         (Redeems(t) /\ Expired(t, now)) => (last'.res = BadRequest /\ db' = db)]_vars

\* C8 (as claimed): a redemption by a user who already holds an Access row
\* on the token's bill fails BadRequest and changes nothing.
C8_FirstTimeOnly ==
    [][\A t \in DOMAIN db.bill_share_token :
         (Redeems(t) /\ HasAccess(db, db.bill_share_token[t].bill, last'.user))
         => (last'.res = BadRequest /\ db' = db)]_vars

\* C9 (as claimed): a redemption of an active token (not expired, uses unset
\* or left) by a user without Access on its bill succeeds, returns the bill id
\* and inserts exactly the Access row (bill, user, role of the token).
C9_RedeemGrants ==
    [][\A t \in DOMAIN db.bill_share_token :
         (/\ Redeems(t)
          /\ ~Expired(t, now)
          /\ Granted(t).remaining_uses # Some(0)
          /\ ~HasAccess(db, db.bill_share_token[t].bill, last'.user))
         => /\ last'.res = Ok
            /\ last'.val = db.bill_share_token[t].bill
            /\ db'.bill_access = db.bill_access (+)
                 SetToBag({AccessRow(db.bill_share_token[t].bill, last'.user,
                                     Granted(t).access_role)})
            /\ db'.bill = db.bill]_vars

\* the uses left of the stored token t: its counter when the document holds
\* one, the number it was issued with otherwise
UsesLeft(d, t) ==
    IF HasAttr(d.bill_share_token[t], "remaining_uses")
    THEN d.bill_share_token[t].remaining_uses
    ELSE Granted(t).remaining_uses
Exhausted(d, t) ==
    /\ t \in DOMAIN d.bill_share_token
    /\ ~IsNone(UsesLeft(d, t))
    /\ UsesLeft(d, t)[1] <= 0

\* C10: Expired, Exhausted and Revoked are terminal.  A redemption succeeds
\* only on a stored token that is neither expired nor exhausted; an expired
\* token stays expired, an exhausted one exhausted, a revoked one revoked (the
\* clock does not go back, no step changes a stored token otherwise than by
\* lowering its counter, and a deleted token never reappears); a successful
\* revoke or revoke_all deletes the tokens it names; and the redemption of a
\* revoked token is answered NotFound and changes nothing.
C10_TerminalTokenStates ==
    [][/\ now' >= now
       /\ \A t \in Issued(db) :
            /\ Revoked(db, t) => Revoked(db', t)
            /\ (t \in DOMAIN db.bill_share_token /\ t \in DOMAIN db'.bill_share_token)
               => \/ db'.bill_share_token[t] = db.bill_share_token[t]
                  \/ /\ ~IsNone(UsesLeft(db, t))
                     /\ db'.bill_share_token[t] =
                          [db.bill_share_token[t] EXCEPT
                             !.remaining_uses = Some(UsesLeft(db, t)[1] - 1)]
            /\ (t \in DOMAIN shareRequests) => (shareRequests'[t] = shareRequests[t])
            /\ (Handles("redeem") /\ last'.arg = t /\ last'.res = Ok)
               => /\ t \in DOMAIN db.bill_share_token
                  /\ ~Expired(t, now)
                  /\ ~Exhausted(db, t)
            /\ (Handles("redeem") /\ last'.arg = t /\ last'.user # None /\ Revoked(db, t))
               => (last'.res = NotFound /\ db' = db)
            /\ (Handles("revoke") /\ last'.arg = t /\ last'.res = Ok)
               => Revoked(db', t)
            /\ (/\ Handles("revoke_all") /\ last'.res = Ok
                /\ t \in DOMAIN db.bill_share_token
                /\ db.bill_share_token[t].bill = last'.bill)
               => Revoked(db', t)]_vars

\* the redemption of a revoked token was answered NotFound
C10_Witness ==
    /\ last # Idle
    /\ last.op = "redeem"
    /\ last.user # None
    /\ Revoked(db, last.arg)
    /\ last.res = NotFound

\* paid_by names a Member of the roster of bill b in store d
NamesMember(d, b, paid_by) ==
    \E m \in Range(d.bill[b].members) :
        m \in DOMAIN d.bill_member /\ d.bill_member[m].name = paid_by
\* a create_item on an existing bill by a caller holding Owner or Member on it
CreatesItem ==
    /\ Handles("create_item")
    /\ last'.user # None
    /\ last'.bill \in DOMAIN db.bill
    /\ RolesOf(db, last'.bill, last'.user) \cap {OWNER, MEMBER} # {}
ItemsOf(d, b) == {i \in DOMAIN d.bill_item : d.bill_item[i].bill = b}

\* C11: create_item by an Owner or Member with a paid_by that names no Member
\* of the bill's roster fails BadRequest and changes nothing (no item is
\* created).
C11_UnknownPayerRejected ==
    [][(CreatesItem /\ ~NamesMember(db, last'.bill, last'.arg.paid_by))
       => (last'.res = BadRequest /\ db' = db)]_vars

\* a create_item naming a member who was renamed was answered BadRequest
C11_Witness ==
    /\ last # Idle
    /\ last.op = "create_item"
    /\ last.res = BadRequest
    /\ last.bill \in DOMAIN db.bill
    /\ OWNER \in RolesOf(db, last.bill, last.user)
    /\ db.bill[last.bill].members # <<>>
    /\ ~NamesMember(db, last.bill, last.arg.paid_by)
    /\ db.bill_item = <<>>

\* C12 (as claimed): create_item by an Owner or Member with a paid_by that
\* names a Member of the roster succeeds and creates exactly one item, of that
\* bill, with that payer, the caller as creator and the amount as supplied;
\* list_items returns the items of the bill.
C12_KnownPayerCreates ==
    [][/\ (CreatesItem /\ NamesMember(db, last'.bill, last'.arg.paid_by))
          => /\ last'.res = Ok
             /\ \E i \in DOMAIN db'.bill_item \ DOMAIN db.bill_item :
                   /\ DOMAIN db'.bill_item = DOMAIN db.bill_item \cup {i}
                   /\ db'.bill_item[i].bill = last'.bill
                   /\ db'.bill_item[i].paid_by = last'.arg.paid_by
                   /\ db'.bill_item[i].created_by = last'.user
                   /\ db'.bill_item[i].amount = last'.arg.amount
       /\ (Handles("list_items") /\ last'.res = Ok)
          => last'.val = ItemsOf(db, last'.bill)]_vars

\* the roles that let a caller run the gated operation op
RequiredRoles(op) == IF op \in OwnerOps THEN {OWNER} ELSE {OWNER, MEMBER}

\* C13 (as claimed): a gated mutation commits writes only if, in the store
\* as committed at that moment, its caller holds an Access row of a role
\* that allows it on the bill.
C13_NoStaleAuthorization ==
    [][(HandlesAny(MutatingOps) /\ Data(db') # Data(db))
       => /\ last'.bill \in DOMAIN db.bill
          /\ RolesOf(db, last'.bill, last'.user) \cap RequiredRoles(last'.op) # {}]_vars

\* a request is answered in this step
Answers == last = Idle /\ last' # Idle
Changes == Data(db') # Data(db)

\* C14: the committed documents change only in the step that commits a
\* request, and then by the whole effect of its handler: create adds the bill
\* together with its Owner row, add_member the Member row together with the
\* roster entry, remove_member removes both, update_access leaves exactly the
\* rows of the access_list, delete_bill leaves no Bill, Access row or item of
\* a bill of the batch (or, for a bill created after it began, leaves all
\* three as they are), redeem adds the Access row of the token; a request answered
\* with a failed check, or one that fails between two writes, changes nothing.
C14_AtomicMutations ==
    [][/\ Changes => Answers
       /\ (Answers /\ last'.res \in {Unauthorized, Forbidden, NotFound, BadRequest})
          => ~Changes
       /\ (Answers /\ last'.res = InternalError /\ last'.op # "create") => ~Changes
       /\ (Handles("create") /\ Changes)
          => /\ last'.bill \in DOMAIN db'.bill \ DOMAIN db.bill
             /\ AccessOf(db', last'.bill)
                  = SetToBag({AccessRow(last'.bill, last'.user, OWNER)})
       /\ (Handles("add_member") /\ Changes)
          => \E m \in DOMAIN db'.bill_member \ DOMAIN db.bill_member :
                /\ last'.bill \in DOMAIN db.bill
                /\ db'.bill[last'.bill].members = Append(db.bill[last'.bill].members, m)
       /\ (Handles("remove_member") /\ Changes)
          => /\ last'.arg.bill_member_id \in DOMAIN db.bill_member
             /\ last'.arg.bill_member_id \notin DOMAIN db'.bill_member
             /\ last'.bill \in DOMAIN db'.bill
             /\ last'.arg.bill_member_id \notin RosterIds(db'.bill[last'.bill])
       /\ (Handles("update_access") /\ last'.res = Ok)
          => AccessOf(db', last'.bill) = AccessListRows(last'.bill, last'.arg)
       /\ (Handles("delete_bill") /\ last'.res = Ok)
          => \A b \in last'.arg :
                \/ /\ b \notin DOMAIN db'.bill
                   /\ AccessOf(db', b) = EmptyBag
                   /\ ItemsOf(db', b) = {}
                \/ /\ b \in DOMAIN db.bill <=> b \in DOMAIN db'.bill
                   /\ AccessOf(db', b) = AccessOf(db, b)
                   /\ ItemsOf(db', b) = ItemsOf(db, b)
       /\ (Handles("redeem") /\ Changes)
          => /\ last'.res = Ok
             /\ BagCardinality(db'.bill_access) = BagCardinality(db.bill_access) + 1]_vars

\* update_access has deleted the rows of the bill in its transaction and not
\* yet inserted the new ones: the committed rows are still those it found
C14_Witness ==
    \E p \in Procs :
        /\ txns[p].phase = "open"
        /\ txns[p].req.op = "update_access"
        /\ txns[p].done = 1
        /\ AccessDeletes(txns[p]) # {}
        /\ AccessOf(db, txns[p].req.bill) = AccessOf(txns[p].snap, txns[p].req.bill)

\* C15: every successful add_member, remove_member and update (title) acts
\* on the roster as committed at that moment: add_member appends its member
\* to it, remove_member removes its member from it, update leaves it as it is
\* (so the roster is the result of the successful calls in the order of their
\* commits); and every Member row is on the roster of its bill, every roster
\* entry has its Member row, and no entry is on a roster twice.
C15_RosterLinearizable ==
    /\ [](/\ UNION {RosterIds(db.bill[b]) : b \in DOMAIN db.bill} = DOMAIN db.bill_member
          /\ \A b \in DOMAIN db.bill :
                /\ Cardinality(RosterIds(db.bill[b])) = Len(db.bill[b].members)
                /\ \A c \in DOMAIN db.bill \ {b} :
                      RosterIds(db.bill[b]) \cap RosterIds(db.bill[c]) = {})
    /\ [][/\ (Handles("add_member") /\ last'.res = Ok)
             => /\ last'.bill \in DOMAIN db.bill
                /\ last'.val \notin RosterIds(db.bill[last'.bill])
                /\ db'.bill[last'.bill].members
                     = Append(db.bill[last'.bill].members, last'.val)
          /\ (Handles("remove_member") /\ last'.res = Ok)
             => /\ last'.bill \in DOMAIN db.bill
                /\ last'.arg.bill_member_id \in RosterIds(db.bill[last'.bill])
                /\ db'.bill[last'.bill].members
                     = Without(db.bill[last'.bill].members, last'.arg.bill_member_id)
          /\ (Handles("update") /\ last'.res = Ok)
             => /\ last'.bill \in DOMAIN db.bill
                /\ db'.bill[last'.bill].members = db.bill[last'.bill].members
                /\ db'.bill[last'.bill].title = last'.arg
          /\ (\E b \in DOMAIN db.bill \cap DOMAIN db'.bill :
                 db'.bill[b].members # db.bill[b].members)
             => (HandlesAny({"add_member", "remove_member"}) /\ last'.res = Ok)]_vars

\* an add_member that met a write conflict runs again, on a roster that
\* already holds the member of the request it conflicted with, and is about
\* to commit
C15_Witness ==
    \E p \in Procs :
        /\ txns[p].phase = "open"
        /\ txns[p].req.op = "add_member"
        /\ txns[p].attempt = 2
        /\ txns[p].done = 2
        /\ txns[p].r.res = Ok
        /\ db.bill[txns[p].req.bill].members # <<>>
        /\ db.bill[txns[p].req.bill] = txns[p].snap.bill[txns[p].req.bill]

\* C16: a successful delete_bill leaves, for every bill id of the batch, no
\* Bill, no Access row and no item of that id, in one step, and leaves the
\* other bills, their Access rows and their items as they were.
C16_DeleteCascade ==
    [][(Handles("delete_bill") /\ last'.res = Ok)
       => /\ \A b \in last'.arg :
                /\ b \notin DOMAIN db'.bill
                /\ AccessOf(db', b) = EmptyBag
                /\ ItemsOf(db', b) = {}
          /\ \A b \in DOMAIN db.bill \ last'.arg :
                /\ b \in DOMAIN db'.bill
                /\ db'.bill[b] = db.bill[b]
                /\ AccessOf(db', b) = AccessOf(db, b)
                /\ ItemsOf(db', b) = ItemsOf(db, b)]_vars

\* bill 1 was deleted by its Owner while bill 2 and its Access rows remain
C16_Witness ==
    /\ last # Idle
    /\ last.op = "delete_bill"
    /\ last.res = Ok
    /\ last.arg = {1}
    /\ DOMAIN db.bill = {2}
    /\ AccessOf(db, 2) # EmptyBag
    /\ AccessOf(db, 1) = EmptyBag

\* the share tokens of store d whose target is bill b
TokensOf(d, b) == {t \in DOMAIN d.bill_share_token : d.bill_share_token[t].bill = b}

\* C17 (as claimed): after a successful delete_bill of bill b there is no
\* share token whose target is b and no Member row that was on b's roster.
C17_CascadeTokensMembers ==
    [][(Handles("delete_bill") /\ last'.res = Ok)
       => \A b \in last'.arg \cap DOMAIN db.bill :
             /\ TokensOf(db', b) = {}
             /\ RosterIds(db.bill[b]) \cap DOMAIN db'.bill_member = {}]_vars

\* bill b of store d has been deleted: its id was given out and it is not stored
Deleted(d, b) == b \in 1..d.next_id.bill /\ b \notin DOMAIN d.bill

\* C18 (as claimed): once a bill is deleted it stays deleted, no Access row
\* referencing it is created, and every gated operation on it by an
\* authenticated user (delete_bill with the bill in its batch included) fails
\* NotFound.
C18_DeletedTerminal ==
    [][\A b \in 1..db.next_id.bill :
         Deleted(db, b) =>
            /\ Deleted(db', b)
            /\ AccessOf(db', b) = AccessOf(db, b)
            /\ (/\ HandlesAny(GatedOps \cup ListOps)
                /\ last'.bill = b
                /\ last'.user # None)
               => last'.res = NotFound
            /\ (/\ Handles("delete_bill")
                /\ b \in last'.arg
                /\ last'.user # None)
               => last'.res = NotFound]_vars

\* the roles held on bill b in store d
RolesOn(d, b) == {row.role : row \in DOMAIN AccessOf(d, b)}

\* C19 (as claimed): every existing bill has at least one Access row with role
\* Owner.
C19_AlwaysAnOwner == \A b \in DOMAIN db.bill : OWNER \in RolesOn(db, b)

\* SpecDup: access lists long enough to name one user twice, and redemptions
DupBills == 1
DupTokens == 1
DupAccessList == 2
DupScope == [bills |-> DupBills, members |-> 0, tokens |-> DupTokens,
             access_list |-> DupAccessList,
             grants |-> [user_id : {"alice", "carol"}, role : {OWNER, MEMBER}],
             roles |-> {MEMBER}, expires_at |-> {NoValue},
             remaining_uses |-> {NoValue}]

NextDup ==
    \/ Call_create_bill(DupScope)
    \/ Call_update_bill_access(DupScope)
    \/ Call_share_bill(DupScope)
    \/ Call_consume_share_bill_token(DupScope)
    \/ Respond

SpecDup == Init /\ [][NextDup]_vars

\* C20 (as claimed): there is at most one Access row per (bill, user) pair.
C20_OneRowPerUser ==
    \A row \in DOMAIN db.bill_access :
        /\ db.bill_access[row] = 1
        /\ \A other \in DOMAIN db.bill_access :
              (other.bill = row.bill /\ other.user = row.user) => other = row

\* every bill, access, member, share-token and item operation
AllOps == GatedOps \cup ListOps \cup {"create", "delete_bill", "list", "redeem"}

\* C21: every bill, member, item, access and share-token operation whose
\* caller has no identity is answered Unauthorized (never Forbidden or
\* NotFound) and leaves every bill, Access row, member, item and token as it
\* was.
C21_NoIdentityUnauthorized ==
    [][(HandlesAny(AllOps) /\ last'.user = None)
       => (last'.res = Unauthorized /\ db' = db)]_vars

\* an unauthenticated delete_bill of an existing bill was answered Unauthorized
C21_Witness ==
    /\ last # Idle
    /\ last.op = "delete_bill"
    /\ last.user = None
    /\ last.arg \cap DOMAIN db.bill # {}
    /\ last.res = Unauthorized

\* the session values given out so far
IssuedSessions(d) == {uuid4(n) : n \in 1..d.next_id.user_session}
\* the resolution served in slot p is answered in this step
ResolvedBy(p) == Handles("resolve") /\ txns[p] # NoTxn /\ txns'[p] = NoTxn

\* C22 (as claimed): a resolve that finds the session expired returns no
\* identity and deletes the record; a session that is no longer stored is
\* never stored again, so that every later resolve of it returns no identity;
\* and a resolve of a token that names no stored session returns no identity
\* and changes nothing.
C22_SessionExpiry ==
    [][/\ \A c \in IssuedSessions(db) :
            c \notin DOMAIN db.user_session => c \notin DOMAIN db'.user_session
       /\ \A p \in Procs :
            (ResolvedBy(p) /\ txns[p].found.expires_at < txns[p].at)
            => /\ last'.val = None
               /\ last'.arg \notin DOMAIN db'.user_session
       /\ (Handles("resolve") /\ txns' = txns /\ last'.arg \notin DOMAIN db.user_session)
          => (last'.val = None /\ db' = db)]_vars

Surfaces(p) ==
    /\ txns[p].phase = "conflict"
    /\ txns'[p] = NoTxn
    /\ Answers

\* C24 (as claimed): a multi-record mutation that meets a write conflict is
\* run again, and the conflict is answered to the caller only when the
\* attempt that met it was the last one the retry policy allows.
C24_ConflictsRetried ==
    [][\A p \in Procs : Surfaces(p) => txns[p].attempt = Retries]_vars

\* an issue on an existing bill by a caller who holds Owner on it
IssuesAsOwner ==
    /\ Handles("issue")
    /\ last'.user # None
    /\ last'.bill \in DOMAIN db.bill
    /\ OWNER \in RolesOf(db, last'.bill, last'.user)
\* the bound member of the request is given and is not on the bill's roster
BoundOffRoster(d, params) ==
    /\ ~IsNone(params.bill_member_id)
    /\ params.bill_member_id[1] \notin RosterIds(d.bill[params.bill_id])

\* C25 (as claimed): issue by an Owner with a bound member that is not on the
\* bill's roster fails NotFound and creates no token; otherwise it creates
\* exactly one token, for that bill, with the role, expiry and remaining_uses
\* of the request.
C25_IssueBoundMember ==
    [][IssuesAsOwner =>
         IF BoundOffRoster(db, last'.arg)
         THEN last'.res = NotFound /\ db' = db
         ELSE /\ last'.res = Ok
              /\ \E t \in DOMAIN db'.bill_share_token \ DOMAIN db.bill_share_token :
                    /\ DOMAIN db'.bill_share_token = DOMAIN db.bill_share_token \cup {t}
                    /\ db'.bill_share_token[t].bill = last'.bill
                    /\ db'.bill_share_token[t].access_role = last'.arg.access_role
                    /\ HasAttr(db'.bill_share_token[t], "expires_at")
                    /\ db'.bill_share_token[t].expires_at = last'.arg.expires_at
                    /\ HasAttr(db'.bill_share_token[t], "remaining_uses")
                    /\ db'.bill_share_token[t].remaining_uses = last'.arg.remaining_uses]_vars

\* a remove_member on an existing bill by a caller holding Owner or Member on it
RemovesMember ==
    /\ Handles("remove_member")
    /\ last'.user # None
    /\ last'.bill \in DOMAIN db.bill
    /\ RolesOf(db, last'.bill, last'.user) \cap {OWNER, MEMBER} # {}
\* sequence new is sequence old with its one entry m taken out
TakenOut(old, new, m) ==
    \E k \in DOMAIN old :
        /\ old[k] = m
        /\ new = SubSeq(old, 1, k - 1) \o SubSeq(old, k + 1, Len(old))

\* C26: remove_member by an Owner or Member fails NotFound when no Member row
\* has the id and BadRequest when the Member is not on this bill's roster,
\* leaving the store as it was; otherwise it succeeds, the Member row is gone,
\* the roster is the old one with that entry taken out (the others in their
\* order), and the other bills, Member rows and Access rows are unchanged.
C26_RemoveMember ==
    [][RemovesMember =>
         LET b == last'.bill
             m == last'.arg.bill_member_id
         IN  IF m \notin DOMAIN db.bill_member
             THEN last'.res = NotFound /\ db' = db
             ELSE IF m \notin RosterIds(db.bill[b])
             THEN last'.res = BadRequest /\ db' = db
             ELSE /\ last'.res = Ok
                  /\ m \notin DOMAIN db'.bill_member
                  /\ m \notin RosterIds(db'.bill[b])
                  /\ TakenOut(db.bill[b].members, db'.bill[b].members, m)
                  /\ \A k \in DOMAIN db.bill_member \ {m} :
                        k \in DOMAIN db'.bill_member
                        /\ db'.bill_member[k] = db.bill_member[k]
                  /\ DOMAIN db'.bill = DOMAIN db.bill
                  /\ \A c \in DOMAIN db.bill \ {b} : db'.bill[c] = db.bill[c]
                  /\ db'.bill_access = db.bill_access]_vars

\* the Member in the middle of a roster of three was removed, and the
\* Member of the other bill was refused
C26_Witness ==
    /\ last # Idle
    /\ last.op = "remove_member"
    /\ last.res = Ok
    /\ last.bill \in DOMAIN db.bill
    /\ Len(db.bill[last.bill].members) = 2
    /\ db.bill[last.bill].members[1] < last.arg.bill_member_id
    /\ last.arg.bill_member_id < db.bill[last.bill].members[2]

\* the items of bill b in store d that Member m paid
PaidBy(d, b, m) == {i \in ItemsOf(d, b) : d.bill_item[i].paid_by = m}

UpdatesItem ==
    /\ Handles("update_item")
    /\ last'.user # None
    /\ last'.bill \in DOMAIN db.bill
    /\ RolesOf(db, last'.bill, last'.user) \cap {OWNER, MEMBER} # {}
\* the fields of a ledger item that update_item may write
UpdateFields == {"type", "type_icon", "description", "amount", "currency",
                 "occurred_time"}

\* C28: update_item changes nothing but the type, icon, description, amount,
\* currency and occurred_time of the addressed item: every item keeps its
\* bill, creator, payer and creation time, the other items and the rest of the
\* store are as before; by an Owner or Member it fails NotFound for an item id
\* that is not an item of the given bill, and BadRequest, with nothing
\* changed, when paid_by names no Member of the bill's roster.
C28_UpdateItemFrame ==
    [][Handles("update_item") =>
         /\ DOMAIN db'.bill_item = DOMAIN db.bill_item
         /\ \A i \in DOMAIN db.bill_item :
               /\ \A f \in BillItemFields \ UpdateFields :
                     db'.bill_item[i][f] = db.bill_item[i][f]
               /\ i # last'.arg.item_id => db'.bill_item[i] = db.bill_item[i]
         /\ [db' EXCEPT !.bill_item = db.bill_item] = db
         /\ (UpdatesItem /\ last'.arg.item_id \notin ItemsOf(db, last'.bill))
            => (last'.res = NotFound /\ db' = db)
         /\ (/\ UpdatesItem
             /\ last'.arg.item_id \in ItemsOf(db, last'.bill)
             /\ ~NamesMember(db, last'.bill, last'.arg.paid_by))
            => (last'.res = BadRequest /\ db' = db)]_vars

\* the update of a stored item whose payer had left the roster was answered
\* BadRequest
C28_Witness ==
    /\ last # Idle
    /\ last.op = "update_item"
    /\ last.res = BadRequest
    /\ last.bill \in DOMAIN db.bill
    /\ last.arg.item_id \in ItemsOf(db, last.bill)
    /\ ~NamesMember(db, last.bill, last.arg.paid_by)
    /\ db.bill_item[last.arg.item_id].paid_by \notin DOMAIN db.bill_member

\* the requests that write a ledger item
ItemWrites == {"create_item", "update_item", "delete_item"}
\* s lists, each once and latest item activity first, the existing bills on
\* which user u holds an Access row in store d
ListsBillsOf(d, u, s) ==
    /\ Range(s) = {b \in DOMAIN d.bill : HasAccess(d, b, u)}
    /\ Len(s) = Cardinality(Range(s))
    /\ \A i, j \in DOMAIN s :
          i < j => d.bill[s[i]].item_updated_time >= d.bill[s[j]].item_updated_time

\* C29: list_for_user answers with exactly the existing bills on which the
\* caller holds an Access row, each once, ordered by item_updated_time
\* descending; and every successful create_item, update_item or delete_item
\* stamps the bill's item_updated_time with the time of the operation.
C29_ListForUser ==
    [][/\ (Handles("list") /\ last'.user # None)
          => /\ last'.res = Ok
             /\ ListsBillsOf(db, last'.user, last'.val)
       /\ (HandlesAny(ItemWrites) /\ last'.res = Ok)
          => db'.bill[last'.bill].item_updated_time = now]_vars

\* slot p serves a request that runs under run_transaction_with_retry
Retried(p) == txns[p] # NoTxn /\ UsesRetry(txns[p].req.op)
\* the times slept before attempt n: backoff, doubled every turn
WaitsBefore(n) == [k \in 1..(n - 1) |-> backoff * (2 ^ (k - 1))]

\* C30: run_transaction_with_retry terminates: it runs the unit of work at
\* most Retries (3) times, each time in a transaction begun on the store as it
\* is then; the request is answered with the result of the attempt that
\* commits; before attempt 2 it has slept backoff (0.1 s) and before attempt 3
\* 2 * backoff more (0.2 s); and the conflict is raised to the caller only
\* after the third attempt, with no further sleep.
C30_RetryTerminates ==
    /\ [](\A p \in Procs :
            Retried(p) => /\ txns[p].attempt \in 1..Retries
                          /\ txns[p].waits = WaitsBefore(txns[p].attempt))
    /\ [][\A p \in Procs :
            Retried(p) =>
              /\ (txns[p].phase = "conflict" /\ txns'[p] \notin {NoTxn, txns[p]})
                 => /\ txns[p].attempt < Retries
                    /\ txns'[p].phase = "open"
                    /\ txns'[p].attempt = txns[p].attempt + 1
                    /\ txns'[p].snap = db
                    /\ txns'[p].done = 0
              /\ Surfaces(p)
                 => /\ txns[p].attempt = Retries
                    /\ Len(txns[p].waits) = Retries - 1
                    /\ last'.res = InternalError
                    /\ db' = db
              /\ (txns[p].phase = "open" /\ txns'[p] = NoTxn /\ Answers)
                 => /\ last'.res = txns[p].r.res
                    /\ last'.val = txns[p].r.val]_vars
    /\ \A p \in Procs : Retried(p) ~> (txns[p] = NoTxn)

\* the third attempt of an add_member, begun after sleeps of 0.1 s and 0.2 s,
\* met a write conflict
C30_Witness ==
    \E p \in Procs :
        /\ txns[p] # NoTxn
        /\ txns[p].req.op = "add_member"
        /\ txns[p].phase = "conflict"
        /\ txns[p].attempt = 3
        /\ txns[p].waits = <<1, 2>>

\* the attempt of the retried request in slot p has failed with an error that
\* is no write conflict, and the request takes its next step
FailsInAttempt(p) ==
    /\ Retried(p)
    /\ txns[p].phase = "open"
    /\ ~Completes(txns[p])
    /\ txns'[p] # txns[p]
\* that step answers the caller with the failure and commits nothing
SurfacesFailure(p) ==
    /\ txns'[p] = NoTxn
    /\ Answers
    /\ last'.res = txns[p].r.res
    /\ last'.res \in {Forbidden, NotFound}
    /\ txns[p].done = 0
    /\ db' = db

MemberRows(d) == DOMAIN d.bill_member
RosterEntries(d) == UNION {RosterIds(d.bill[b]) : b \in DOMAIN d.bill}

\* C32: an add_member answered with success, after any number of aborted
\* attempts, has added exactly one Member row, the one it returns, and
\* exactly one roster entry, for that row, at the end of the roster as
\* committed then; one answered with its write conflict after the last retry
\* has added nothing; no row of an aborted attempt is ever in the store; and
\* every attempt is run anew (permission check, bill read) on the store as
\* committed when the attempt begins, and commits on an unchanged bill.
C32_RetriesLeaveNoTrace ==
    /\ [](MemberRows(db) = RosterEntries(db))
    /\ [][/\ (Handles("add_member") /\ last'.res = Ok)
             => /\ MemberRows(db') = MemberRows(db) \cup {last'.val}
                /\ last'.val \notin MemberRows(db)
                /\ last'.bill \in DOMAIN db.bill
                /\ db'.bill[last'.bill].members
                     = Append(db.bill[last'.bill].members, last'.val)
                /\ \A b \in DOMAIN db.bill \ {last'.bill} : db'.bill[b] = db.bill[b]
          /\ (Handles("add_member") /\ last'.res # Ok) => Data(db') = Data(db)
          /\ \A p \in Procs :
                Retried(p) =>
                  /\ (txns[p].phase = "conflict" /\ txns'[p] \notin {NoTxn, txns[p]})
                     => /\ txns'[p].snap = db
                        /\ txns'[p].r = Serve(txns[p].req, db, now)
                  /\ (txns[p].phase = "open" /\ txns'[p] = NoTxn /\ Answers
                        /\ last'.res = Ok)
                     => db.bill[txns[p].req.bill] = txns[p].snap.bill[txns[p].req.bill]]_vars

\* an add_member was answered with Member 3 after two of the three ids
\* handed out: the roster holds Members 1 and 3 and there is no row 2
C32_Witness ==
    /\ last # Idle
    /\ last.op = "add_member"
    /\ last.res = Ok
    /\ last.val = 3
    /\ MemberRows(db) = {1, 3}
    /\ db.bill[last.bill].members = <<1, 3>>

\* SpecCoOwner: bills with several Owners, and their deletion
CoOwnerBills == 1
CoOwnerAccessList == 2
CoOwnerScope == [bills |-> CoOwnerBills, access_list |-> CoOwnerAccessList,
                 grants |-> [user_id : Users, role : {OWNER, MEMBER}],
                 callers |-> Users]

NextCoOwner ==
    \/ Call_create_bill(CoOwnerScope)
    \/ Call_update_bill_access(CoOwnerScope)
    \/ Call_delete_bill(CoOwnerScope)
    \/ Respond

SpecCoOwner == Init /\ [][NextCoOwner]_vars

\* C33 (as claimed): delete_bill succeeds whenever the caller holds an Owner
\* row on every bill of the batch, also when a bill of the batch has an Owner
\* row of another user.
C33_OwnerMayDelete ==
    [][(/\ Handles("delete_bill")
        /\ last'.user # None
        /\ \A b \in last'.arg :
              b \in DOMAIN db.bill /\ OWNER \in RolesOf(db, b, last'.user))
       => last'.res = Ok]_vars

\* C34: in every committed state every entry of the roster of an existing
\* bill is the id of an existing Member row, no roster holds the same Member
\* twice, and no Member is on the rosters of two bills.
C34_RosterIntegrity ==
    \A b \in DOMAIN db.bill :
        /\ RosterIds(db.bill[b]) \subseteq MemberRows(db)
        /\ Len(db.bill[b].members) = Cardinality(RosterIds(db.bill[b]))
        /\ \A c \in DOMAIN db.bill :
              c # b => RosterIds(db.bill[b]) \cap RosterIds(db.bill[c]) = {}

\* both bills have Members, and the removal of a Member of one bill through
\* the other bill has just been refused
C34_Witness ==
    /\ last # Idle
    /\ last.op = "remove_member"
    /\ last.res = BadRequest
    /\ \A b \in DOMAIN db.bill : db.bill[b].members # <<>>
    /\ \E b \in DOMAIN db.bill \ {last.bill} :
          last.arg.bill_member_id \in RosterIds(db.bill[b])

\* SpecIsolation: two bills and their sub-resources.  The store starts as
\* LedgerStore (bill 1 with a Member and an item); a second bill, Members and
\* share tokens are added by requests of alice and carol.
IsoBills == 2
IsoMembers == 2
IsoTokens == 2
IsoItems == 1
IsoScope == [bills |-> IsoBills, members |-> IsoMembers, tokens |-> IsoTokens,
             items |-> IsoItems, links |-> {None}, roles |-> {OBSERVER},
             expires_at |-> {NoValue}, remaining_uses |-> {NoValue},
             callers |-> {"alice", "carol"}]

NextIsolation ==
    \/ Call_create_bill(IsoScope)
    \/ Call_add_bill_member(IsoScope)
    \/ Call_bind_bill_member(IsoScope)
    \/ Call_update_bill_member(IsoScope)
    \/ Call_share_bill(IsoScope)
    \/ Call_list_share_tokens(IsoScope)
    \/ Call_delete_share_token(IsoScope)
    \/ Call_delete_all_share_tokens(IsoScope)
    \/ Call_list_bill_items(IsoScope)
    \/ Call_update_bill_item(IsoScope)
    \/ Call_delete_bill_item(IsoScope)
    \/ Respond

SpecIsolation == InitLedger /\ [][NextIsolation]_vars

\* the sub-resources of bill b in store d: the bill with its roster, the
\* Member rows on the roster, the items, the share tokens and the Access rows
SubResources(d, b) ==
    [bill |-> d.bill[b],
     members |-> [m \in RosterIds(d.bill[b]) \cap DOMAIN d.bill_member |-> d.bill_member[m]],
     items |-> [i \in ItemsOf(d, b) |-> d.bill_item[i]],
     tokens |-> [k \in TokensOf(d, b) |-> d.bill_share_token[k]],
     access |-> AccessOf(d, b)]
\* the request handled in this step is on bill last'.bill, and the caller
\* passes the permission check of that bill with one of the given roles
AuthorizedOn(ops, roles) ==
    /\ HandlesAny(ops)
    /\ last'.user # None
    /\ last'.bill \in DOMAIN db.bill
    /\ RolesOf(db, last'.bill, last'.user) \cap roles # {}
\* the other bills
Others(d, b) == DOMAIN d.bill \ {b}

\* C35: a request on bill B changes no sub-resource of another bill B' and
\* returns none.  For a caller who passes the permission check on B:
\* bind_member and update_member with a Member of the roster of B',
\* update_item and delete_item with an item of B', and revoke with a token of
\* B' fail NotFound and change nothing; revoke_all deletes exactly the tokens
\* of B; list_tokens and list_items return tokens and items of B only.
C35_CrossBillIsolation ==
    [][/\ (last = Idle /\ last' # Idle)
          => \A b \in Others(db, last'.bill) :
                b \in DOMAIN db'.bill /\ SubResources(db', b) = SubResources(db, b)
       /\ (/\ AuthorizedOn({"bind_member", "update_member"}, {OWNER, MEMBER})
           /\ \E b \in Others(db, last'.bill) :
                 last'.arg.bill_member_id \in RosterIds(db.bill[b]))
          => (last'.res = NotFound /\ db' = db)
       /\ (/\ AuthorizedOn({"update_item", "delete_item"}, {OWNER, MEMBER})
           /\ \E b \in Others(db, last'.bill) :
                 last'.arg.item_id \in ItemsOf(db, b))
          => (last'.res = NotFound /\ db' = db)
       /\ (/\ AuthorizedOn({"revoke"}, {OWNER})
           /\ \E b \in Others(db, last'.bill) : last'.arg \in TokensOf(db, b))
          => (last'.res = NotFound /\ db' = db)
       /\ AuthorizedOn({"revoke_all"}, {OWNER})
          => /\ last'.res = Ok
             /\ TokensOf(db', last'.bill) = {}
             /\ DOMAIN db'.bill_share_token
                  = DOMAIN db.bill_share_token \ TokensOf(db, last'.bill)
       /\ (Handles("list_tokens") /\ last'.res = Ok)
          => last'.val \subseteq TokensOf(db, last'.bill)
       /\ (Handles("list_items") /\ last'.res = Ok)
          => last'.val \subseteq ItemsOf(db, last'.bill)]_vars

\* carol, Owner of bill 2, asked to revoke all tokens of bill 2 while bill 1
\* had a token too: the token of bill 2 is gone and that of bill 1 is there
C35_Witness ==
    /\ last # Idle
    /\ last.op = "revoke_all"
    /\ last.user = "carol"
    /\ last.bill = 2
    /\ last.res = Ok
    /\ DOMAIN db.bill_share_token # {}
    /\ \A k \in DOMAIN db.bill_share_token : db.bill_share_token[k].bill = 1
    /\ db.next_id.bill_share_token = 2

\* the bills that have Access rows in store d
BillsWithAccess(d) == {row.bill : row \in DOMAIN d.bill_access}
\* the request handled in this step is one of the four that may change the
\* Access rows of bill b
MayChangeAccess(b) ==
    \/ Handles("create") /\ last'.bill = b
    \/ /\ Handles("update_access")
       /\ last'.bill = b
       /\ OWNER \in RolesOf(db, b, last'.user)
    \/ /\ Handles("redeem")
       /\ last'.res = Ok
       /\ last'.arg \in TokensOf(db, b)
    \/ Handles("delete_bill") /\ b \in last'.arg
\* ... and it is one of the three that may give user u a row on bill b
MayGrantAccess(b, u) ==
    \/ Handles("create") /\ last'.bill = b /\ last'.user = u
    \/ /\ Handles("update_access")
       /\ last'.bill = b
       /\ OWNER \in RolesOf(db, b, last'.user)
       /\ \E i \in DOMAIN last'.arg : last'.arg[i].user_id = u
    \/ /\ Handles("redeem")
       /\ last'.res = Ok
       /\ last'.user = u
       /\ last'.arg \in TokensOf(db, b)

\* C36: the Access rows of a bill B change only in a create of B, an
\* update_access on B by an Owner, a successful redeem of a token of B and a
\* delete_bill whose batch holds B; every other request leaves them as they
\* are.  A user gets a row on B only by creating B, by being named in an
\* Owner's update_access on B, or by redeeming a token of B.
C36_AccessChangesOnlyByFour ==
    [][\A b \in BillsWithAccess(db) \cup BillsWithAccess(db') :
          /\ AccessOf(db', b) # AccessOf(db, b) => MayChangeAccess(b)
          /\ \A u \in Users :
                (HasAccess(db', b, u) /\ ~HasAccess(db, b, u)) => MayGrantAccess(b, u)]_vars

\* an Owner added a Member linked to carol, who has no Access row on the
\* bill before or after
C36_Witness ==
    /\ last # Idle
    /\ last.op = "add_member"
    /\ last.res = Ok
    /\ last.arg.user_id = "carol"
    /\ last.val \in DOMAIN db.bill_member
    /\ db.bill_member[last.val].linked_user = "carol"
    /\ ~HasAccess(db, last.bill, "carol")

\* the bound Member that token t was issued with is no longer stored
BoundMemberGone(d, t) ==
    /\ t \in DOMAIN shareRequests
    /\ ~IsNone(shareRequests[t].bill_member_id)
    /\ shareRequests[t].bill_member_id[1] \notin DOMAIN d.bill_member

\* C37: a redeem that fails, for whatever reason, adds no Access row, leaves
\* the token and its remaining_uses as they are and changes the linked user
\* of no Member; and a redeem of a token whose bound Member has been removed
\* since the token was issued fails and leaves the caller without Access.
C37_FailedRedeemChangesNothing ==
    [][/\ (Handles("redeem") /\ last'.res # Ok)
          => /\ db'.bill_access = db.bill_access
             /\ db'.bill_share_token = db.bill_share_token
             /\ db'.bill_member = db.bill_member
             /\ db' = db
       /\ \A t \in DOMAIN db.bill_share_token :
             (Handles("redeem") /\ last'.arg = t /\ BoundMemberGone(db, t))
             => /\ last'.res # Ok
                /\ last'.user # None
                   => (HasAccess(db', db.bill_share_token[t].bill, last'.user)
                         <=> HasAccess(db, db.bill_share_token[t].bill, last'.user))]_vars

\* carol redeemed a token bound to a Member that had been removed after the
\* token was issued: the request failed and carol has no Access row
C37_Witness ==
    /\ last # Idle
    /\ last.op = "redeem"
    /\ last.user = "carol"
    /\ last.res # Ok
    /\ last.arg \in DOMAIN db.bill_share_token
    /\ BoundMemberGone(db, last.arg)
    /\ ~HasAccess(db, db.bill_share_token[last.arg].bill, "carol")

====
